---------------------------- MODULE Spec2Model ----------------------------
(***************************************************************************)
(* Model of the marathon bot (Zikrig/marafon): the retrying send           *)
(* primitive, the channel subscription check, the minute scheduler with    *)
(* its reminder fan-outs, the administrator broadcast and the /send      *)
(* dialog that leads to it, the raffle with its winner store, the          *)
(* registration handlers, and two fan-outs sharing the event loop.         *)
(*                                                                         *)
(* Each component has its own specification (SpecSend, SpecSub, ...).      *)
(* They share one list of variables; the variables of the components a     *)
(* specification does not run stay at their initial value.                 *)
(***************************************************************************)
EXTENDS Integers, Sequences, FiniteSets, Bags, TLC

VARIABLES
    \* ---- safe_send_message (scheduler.py 71-102, bot.py 44-76)
    ss_module,      \* which copy of the function runs: "scheduler" or "bot"
    ss_photo,       \* bot.py only: the photo argument ("" is None)
    max_retries,    \* the max_retries argument
    attempt,        \* the loop variable of `for attempt in range(max_retries)`
    ss_pc,          \* "loop" | "done" (returned) | "raised" (an exception escaped)
    ss_result,      \* "none" | "true" | "false": the value returned
    ss_outcomes,    \* the transport's answers to the send calls, in order
    ss_log,         \* the calls made: sends and asyncio.sleep(d), in order
    \* ---- check_subscription (scheduler.py 37-68, bot.py 127-164)
    channel_ids,    \* the configured id of each channel
    membership,     \* what get_chat_member answers for the user, per channel
    cs_pc,          \* "start" | "loop" | "done"
    statuses,       \* the list `statuses`
    cs_lookups,     \* the channels get_chat_member was called for, in order
    cs_result,      \* "none" | "true" | "false"
    \* ---- the user store (database.py, table users)
    db_subscribed,  \* the user ids whose row has subscribed = 1
    \* ---- scheduler_loop and check_and_send_reminders (scheduler.py 105-159, 273-282)
    clock,          \* the wall clock, in seconds
    sl_pc,          \* "tick" | "checks" | "raised" | "sleep" | "crashed"
    current_time,   \* the tuple (year, month, day, hour, minute) of the tick
    users,          \* the list the tick read from get_all_registered_users
    tk_pos,         \* which date comparison of the tick comes next
    tk_i,           \* position in `users` of the fan-out under way (0: none)
    tk_fanouts,     \* the fan-outs this tick started: which reminder, which message
    tk_sends,       \* the sends of this tick: which reminder, to whom, the result
    fired,          \* per reminder, how many fan-outs it has had since the start
    ticks,          \* one record per tick so far: its current_time, users, outcome
    \* ---- confirm_send_callback (bot.py 385-445)
    ad_pc,          \* where the call of confirm_send_callback entered last is
                    \* suspended: "no_data" | "confirm" | "no_users" |
                    \* "sending" | "report" | "answer", or "done"
    message_data,   \* the message kept in the FSM data: "none", "text" or "photo"
    ad_users,       \* the list `users` of the broadcast
    ad_i,           \* how many recipients the for loop has handled
    success_count,
    error_count,
    ad_outcomes,    \* what the transport answered for the recipients handled:
                    \* a bag, one copy of the answer per recipient
    ad_paced,       \* did asyncio.sleep(0.05) follow the send: a bag, one
                    \* copy of the truth value per recipient handled
    ad_report,      \* the counts shown to the administrator
    ad_data,        \* the handler's local message_data, read from the FSM data
    dg_calls,       \* the other handler calls of the user that are suspended
                    \* in a reply with statements still to run: a bag of their
                    \* positions, each with the locals that decide what the
                    \* call does next
    \* ---- the /send dialog of one user (bot.py 289-382)
    admin_ids,      \* ADMIN_IDS, the configured set of administrators
    dg_user,        \* the user whose dialog with the bot is followed
    fsm_state,      \* that user's FSM state: "None" | "waiting_for_message" |
                    \* "confirm_send"
    dg_reply,       \* what the bot last answered that user
    \* ---- the stores the raffle uses (database.py, tables users and raffle_winners)
    db_username,    \* the username column of each user's row ("None" is NULL)
    db_winners,     \* the committed rows of raffle_winners, in insertion order
    \* ---- conduct_raffle (scheduler.py 167-270), save_raffle_winners (database.py 161-184)
    rf_pc,          \* "start" | "recheck" | "update" | "save" | "announce" |
                    \* "sending" | "done"
    rf_no,          \* how many times conduct_raffle has been invoked
    participants,   \* the list read from get_eligible_raffle_participants
    rf_i,           \* position in `participants` of the re-check loop
    is_subscribed,  \* what check_subscription returned for the candidate at rf_i
    rf_checks,      \* the re-checks of this raffle: which user, the result
    eligible_participants,
    winners_data,   \* the list handed to save_raffle_winners
    rf_txn,         \* rows inserted on the open connection and not committed
    rf_base,        \* how many rows raffle_winners had when this raffle began
    rf_inserts,     \* how many INSERTs save_raffle_winners has executed
    rf_users,       \* the list `users` of the announcement
    rf_j,           \* how many recipients the announcement loop has handled
    rf_sends,       \* the announcement's sends: to whom, the result
    rf_outcome,     \* how this invocation ended ("running" while it has not)
    rf_failed,      \* the store reads of this invocation that failed and gave []
    \* ---- a reminder fan-out and an administrator broadcast on one event loop
    fo_list,        \* per fan-out, the list of recipients it iterates over
    fo_next,        \* per fan-out, the position its for loop takes next
    fo_calls,       \* per fan-out, the send calls entered and not yet returned
    fo_wire,        \* the transport calls made, in the order the event loop made them
    \* ---- cmd_start, process_participate, process_check_subscription (bot.py 167-269)
    rg_pc,          \* "new" | "welcomed" | "asked" | "mark" | "answer" |
                    \* "refuse" | "done"
    rg_user,        \* the user who talks to the bot
    rg_handler,     \* the callback handler under way or last run
    rg_result,      \* what check_subscription returned to the handler
    rg_stale,       \* a raffle re-check of rg_user had failed and was waiting to
                    \* write its result when the handler made its check
    rg_marked,      \* did mark_subscribed set the flag of a row
    rg_sent         \* the messages sent to the user, in order

sendVars == <<ss_module, ss_photo, max_retries, attempt, ss_pc, ss_result,
              ss_outcomes, ss_log>>
subVars == <<channel_ids, membership, cs_pc, statuses, cs_lookups, cs_result>>
dbVars == <<db_subscribed>>
schedVars == <<clock, sl_pc, current_time, users, tk_pos, tk_i, tk_fanouts,
               tk_sends, fired, ticks>>
dialogVars == <<admin_ids, dg_user, fsm_state, dg_reply>>
adminVars == <<ad_pc, message_data, ad_users, ad_i, success_count, error_count,
               ad_outcomes, ad_paced, ad_report, ad_data, dg_calls,
               dialogVars>>
\* The call of confirm_send_callback entered last.
followedVars == <<ad_pc, ad_users, ad_i, success_count, error_count,
                  ad_outcomes, ad_paced, ad_report, ad_data>>
\* What no handler of the /send dialog changes.
dialogFixed == <<admin_ids, dg_user, db_subscribed>>
raffleVars == <<db_username, db_winners, rf_pc, rf_no, participants, rf_i,
                is_subscribed, rf_checks, eligible_participants, winners_data,
                rf_txn, rf_base, rf_inserts, rf_users, rf_j, rf_sends,
                rf_outcome, rf_failed>>
\* The raffle's variables other than the table users.
raffleRun == <<db_winners, rf_pc, rf_no, participants, rf_i, is_subscribed,
               rf_checks, eligible_participants, winners_data, rf_txn,
               rf_base, rf_inserts, rf_users, rf_j, rf_sends, rf_outcome,
               rf_failed>>
loopVars == <<fo_list, fo_next, fo_calls, fo_wire>>
regVars == <<rg_pc, rg_user, rg_handler, rg_result, rg_stale, rg_marked,
             rg_sent>>
vars == <<sendVars, subVars, dbVars, schedVars, adminVars, raffleVars, loopVars,
          regVars>>
notSend == <<subVars, dbVars, schedVars, adminVars, raffleVars, loopVars,
             regVars>>
\* The scheduler's variables other than the wall clock.
schedNoClock == <<sl_pc, current_time, users, tk_pos, tk_i, tk_fanouts,
                  tk_sends, fired, ticks>>
notSub == <<sendVars, dbVars, schedVars, adminVars, raffleVars, loopVars,
             regVars>>
notSched == <<sendVars, subVars, adminVars, raffleVars, loopVars,
               regVars>>
notAdmin == <<sendVars, subVars, schedVars, raffleVars, loopVars,
               regVars>>
notRaffle == <<sendVars, subVars, schedVars, adminVars, loopVars,
                regVars>>
\* All but the registration handlers and the table users.
notReg == <<sendVars, subVars, schedVars, adminVars, raffleRun, loopVars>>
notLoop == <<sendVars, subVars, dbVars, schedVars, adminVars, raffleVars,
              regVars>>

\* ------------------------------------------------------------------ bounds
\* Largest max_retries argument tried (the default, 3, is below it: with 4
\* attempts the third delay tells 2*i from 2^i).
MaxRetriesArg == 4
\* Largest retry_after a rate-limited answer carries.
MaxRetryAfter == 2
\* Number of user ids.
MaxUsers == 2
\* How many minutes the scheduler is followed for, from its start.
MaxMinutes == 4
\* Number of user ids in the raffle (more than the three prizes).
MaxRaffleUsers == 4
\* How many times conduct_raffle is invoked.
MaxRaffles == 2
\* How many second boundaries the wall clock passes during the invocations of
\* the raffle: enough to give each invocation a second of its own.
MaxRaffleSeconds == MaxRaffles - 1
\* How many messages to the user the registration dialog is followed for.
MaxSent == 3
\* How many handler calls of one user are suspended at the same time.
MaxCalls == 2

\* ----------------------------------------------------------- program constants
\* max_retries: int = 3
DefaultMaxRetries == 3

SleepSeconds_Short == 60 - 1

\* await asyncio.sleep(60)
SleepSeconds == 60

\* ----------------------------------------------------------- configuration
\* The keys of the dict channel_ids, in insertion order.
Channels == <<"MAIN", "OKSANA", "NATALIA", "MARIA">>

ChannelNames == {Channels[i] : i \in 1..Len(Channels)}

\* ------------------------------------------------------------ idle components
\* safe_send_message is not running.
SendIdle ==
    /\ ss_module = "scheduler"
    /\ ss_photo = ""
    /\ max_retries = DefaultMaxRetries
    /\ attempt = 0
    /\ ss_pc = "idle"
    /\ ss_result = "none"
    /\ ss_outcomes = << >>
    /\ ss_log = << >>

\* The scheduler is not running.
SchedRunIdle ==
    /\ clock = 0
    /\ sl_pc = "idle"
    /\ current_time = << >>
    /\ users = << >>
    /\ tk_pos = 0
    /\ tk_i = 0
    /\ tk_fanouts = << >>
    /\ tk_sends = << >>
    /\ fired = << >>
    /\ ticks = << >>

\* The scheduler is not running and the user store is empty.
SchedIdle ==
    /\ db_subscribed = {}
    /\ clock = 0
    /\ sl_pc = "idle"
    /\ current_time = << >>
    /\ users = << >>
    /\ tk_pos = 0
    /\ tk_i = 0
    /\ tk_fanouts = << >>
    /\ tk_sends = << >>
    /\ fired = << >>
    /\ ticks = << >>

\* No administrator broadcast is under way.
AdminIdle ==
    /\ ad_pc = "idle"
    /\ message_data = "none"
    /\ ad_users = << >>
    /\ ad_i = 0
    /\ success_count = 0
    /\ error_count = 0
    /\ ad_outcomes = EmptyBag
    /\ ad_paced = EmptyBag
    /\ ad_report = << >>
    /\ ad_data = "none"
    /\ dg_calls = EmptyBag
    /\ admin_ids = {}
    /\ dg_user = 0
    /\ fsm_state = "None"
    /\ dg_reply = "none"

\* No raffle is under way and raffle_winners is empty.
RaffleRunIdle ==
    /\ db_winners = << >>
    /\ rf_pc = "idle"
    /\ rf_no = 0
    /\ participants = << >>
    /\ rf_i = 0
    /\ is_subscribed = "none"
    /\ rf_checks = << >>
    /\ eligible_participants = << >>
    /\ winners_data = << >>
    /\ rf_txn = << >>
    /\ rf_base = 0
    /\ rf_inserts = 0
    /\ rf_users = << >>
    /\ rf_j = 0
    /\ rf_sends = << >>
    /\ rf_outcome = "none"
    /\ rf_failed = {}

\* No raffle is under way, and the raffle's stores are empty.
RaffleIdle ==
    /\ db_username = << >>
    /\ db_winners = << >>
    /\ rf_pc = "idle"
    /\ rf_no = 0
    /\ participants = << >>
    /\ rf_i = 0
    /\ is_subscribed = "none"
    /\ rf_checks = << >>
    /\ eligible_participants = << >>
    /\ winners_data = << >>
    /\ rf_txn = << >>
    /\ rf_base = 0
    /\ rf_inserts = 0
    /\ rf_users = << >>
    /\ rf_j = 0
    /\ rf_sends = << >>
    /\ rf_outcome = "none"
    /\ rf_failed = {}

\* No two fan-outs are being followed on the event loop.
LoopIdle ==
    /\ fo_list = << >>
    /\ fo_next = << >>
    /\ fo_calls = << >>
    /\ fo_wire = << >>

\* Nobody is talking to the registration handlers.
RegIdle ==
    /\ rg_pc = "idle"
    /\ rg_user = 0
    /\ rg_handler = "none"
    /\ rg_result = "none"
    /\ rg_stale = "none"
    /\ rg_marked = "none"
    /\ rg_sent = << >>

\* check_subscription is not running.
SubIdle ==
    /\ channel_ids = [c \in ChannelNames |-> ""]
    /\ membership = [c \in ChannelNames |-> "left"]
    /\ cs_pc = "idle"
    /\ statuses = << >>
    /\ cs_lookups = << >>
    /\ cs_result = "none"

\* =========================================================================
\* safe_send_message
\* =========================================================================

\* What one call of bot.send_message / bot.send_photo can do: succeed, or raise
\* TelegramRetryAfter(retry_after), TelegramNetworkError, another
\* TelegramAPIError (the recipient blocked the bot), or anything else.
TransportOutcomes ==
    [kind : {"ok", "network", "api", "other"}, retry_after : {0}]
        \cup [kind : {"retry_after"}, retry_after : 1..MaxRetryAfter]

\* The class of the exception an outcome raises.
ExceptionClass(kind) ==
    CASE kind = "retry_after" -> "TelegramRetryAfter"
      [] kind = "network"     -> "TelegramNetworkError"
      [] kind = "api"         -> "TelegramForbiddenError"
      [] OTHER                -> "RuntimeError"

\* The classes an exception of class cls is an instance of (aiogram.exceptions).
Bases(cls) ==
    CASE cls = "TelegramRetryAfter" ->
            {"TelegramRetryAfter", "TelegramAPIError", "Exception"}
      [] cls = "TelegramNetworkError" ->
            {"TelegramNetworkError", "TelegramAPIError", "Exception"}
      [] cls = "TelegramForbiddenError" ->
            {"TelegramForbiddenError", "TelegramAPIError", "Exception"}
      [] OTHER -> {cls, "Exception"}

ExceptClauses_NoCatchAll ==
    <<"TelegramRetryAfter", "TelegramNetworkError", "TelegramAPIError">>

\* The except clauses of the try statement, in source order.
ExceptClauses ==
    <<"TelegramRetryAfter", "TelegramNetworkError", "TelegramAPIError", "Exception">>

\* The clause that handles an exception: the first one it is an instance of.
Handler(cls) ==
    LET hits == {i \in 1..Len(ExceptClauses) : ExceptClauses[i] \in Bases(cls)}
    IN  IF hits = {} THEN "uncaught"
        ELSE ExceptClauses[CHOOSE i \in hits : \A j \in hits : i <= j]

BackoffDelay_Exponential(a) == 2 ^ (a + 1)

\* wait_time = (attempt + 1) * 2
BackoffDelay(a) == (a + 1) * 2

\* What a handler does: go = "continue" | "false" (return False), after
\* sleeping the durations of `sleep`.
OnRetryAfter(o) == [go |-> "continue", sleep |-> <<o.retry_after>>]

OnNetworkError(a, n) ==
    IF a < n - 1
    THEN [go |-> "continue", sleep |-> <<BackoffDelay(a)>>]
    ELSE [go |-> "false", sleep |-> << >>]

OnApiError_Retry == [go |-> "continue", sleep |-> << >>]

OnApiError == [go |-> "false", sleep |-> << >>]

OnOtherError == [go |-> "false", sleep |-> << >>]

\* The transport call of one attempt.
SendEvent ==
    IF ss_module = "bot" /\ ss_photo # ""
    THEN [ev |-> "send_photo", d |-> 0]
    ELSE [ev |-> "send_message", d |-> 0]

\* One attempt that raised and was handled as `h` says.
Handled(o, h) ==
    /\ ss_outcomes' = Append(ss_outcomes, o)
    /\ ss_log' = Append(ss_log, SendEvent)
                     \o [i \in 1..Len(h.sleep) |->
                            [ev |-> "sleep", d |-> h.sleep[i]]]
    /\ IF h.go = "continue"
       THEN /\ attempt' = attempt + 1
            /\ UNCHANGED <<ss_pc, ss_result>>
       ELSE /\ ss_pc' = "done"
            /\ ss_result' = h.go
            /\ UNCHANGED attempt
    /\ UNCHANGED <<ss_module, ss_photo, max_retries>>

InLoop_OneMore == ss_pc = "loop" /\ attempt <= max_retries

\* for attempt in range(max_retries): the body runs while attempts are left.
InLoop == ss_pc = "loop" /\ attempt < max_retries

\* await bot.send_message(...); return True
SendOk ==
    /\ InLoop
    /\ \E o \in TransportOutcomes :
          /\ o.kind = "ok"
          /\ ss_outcomes' = Append(ss_outcomes, o)
          /\ ss_log' = Append(ss_log, SendEvent)
          /\ ss_pc' = "done"
          /\ ss_result' = "true"
    /\ UNCHANGED <<ss_module, ss_photo, max_retries, attempt>>
    /\ UNCHANGED notSend

\* except TelegramRetryAfter: sleep(e.retry_after); continue
SendRetryAfter ==
    /\ InLoop
    /\ \E o \in TransportOutcomes :
          /\ o.kind # "ok"
          /\ Handler(ExceptionClass(o.kind)) = "TelegramRetryAfter"
          /\ Handled(o, OnRetryAfter(o))
    /\ UNCHANGED notSend

\* except TelegramNetworkError: sleep and continue, or return False at the end
SendNetworkError ==
    /\ InLoop
    /\ \E o \in TransportOutcomes :
          /\ o.kind # "ok"
          /\ Handler(ExceptionClass(o.kind)) = "TelegramNetworkError"
          /\ Handled(o, OnNetworkError(attempt, max_retries))
    /\ UNCHANGED notSend

\* except TelegramAPIError: return False
SendApiError ==
    /\ InLoop
    /\ \E o \in TransportOutcomes :
          /\ o.kind # "ok"
          /\ Handler(ExceptionClass(o.kind)) = "TelegramAPIError"
          /\ Handled(o, OnApiError)
    /\ UNCHANGED notSend

\* except Exception: return False.  An exception no clause handles leaves
\* the function.
SendOtherError ==
    /\ InLoop
    /\ \E o \in TransportOutcomes :
          /\ o.kind # "ok"
          /\ Handler(ExceptionClass(o.kind)) \in {"Exception", "uncaught"}
          /\ IF Handler(ExceptionClass(o.kind)) = "Exception"
             THEN Handled(o, OnOtherError)
             ELSE /\ ss_outcomes' = Append(ss_outcomes, o)
                  /\ ss_log' = Append(ss_log, SendEvent)
                  /\ ss_pc' = "raised"
                  /\ UNCHANGED <<ss_module, ss_photo, max_retries, attempt,
                                 ss_result>>
    /\ UNCHANGED notSend

\* the loop ran out: the `return False` after it
SendLoopExhausted ==
    /\ ss_pc = "loop"
    /\ attempt >= max_retries
    /\ ss_pc' = "done"
    /\ ss_result' = "false"
    /\ UNCHANGED <<ss_module, ss_photo, max_retries, attempt, ss_outcomes,
                   ss_log>>
    /\ UNCHANGED notSend

\* One call of safe_send_message, with any max_retries.
InitSend ==
    /\ ss_module \in {"scheduler", "bot"}
    /\ ss_photo \in {"", "file_id"}
    /\ ss_module = "scheduler" => ss_photo = ""
    /\ max_retries \in 0..MaxRetriesArg
    /\ attempt = 0
    /\ ss_pc = "loop"
    /\ ss_result = "none"
    /\ ss_outcomes = << >>
    /\ ss_log = << >>
    /\ SubIdle
    /\ SchedIdle
    /\ AdminIdle
    /\ RaffleIdle
    /\ LoopIdle
    /\ RegIdle

NextSend ==
    \/ SendOk
    \/ SendRetryAfter
    \/ SendNetworkError
    \/ SendApiError
    \/ SendOtherError
    \/ SendLoopExhausted

SpecSend == InitSend /\ [][NextSend]_vars

\* The event loop runs a started coroutine until it returns.
SpecSendFair == SpecSend /\ WF_vars(NextSend)


\* ------------------------------------------------- claims on safe_send_message

Returned == ss_pc = "done"

OutcomeKinds == {ss_outcomes[i].kind : i \in 1..Len(ss_outcomes)}

RECURSIVE TotalSleep(_)
\* The sum of the durations slept in a log.
TotalSleep(log) ==
    IF log = << >> THEN 0
    ELSE (IF Head(log).ev = "sleep" THEN Head(log).d ELSE 0) + TotalSleep(Tail(log))

\* The calls of n attempts that all fail with a network error: a send, then,
\* except after the last one, a sleep of 2*i after the i-th.
NetworkOnlyLog(n) ==
    [k \in 1..(IF n = 0 THEN 0 ELSE 2 * n - 1) |->
        IF k % 2 = 1 THEN SendEvent ELSE [ev |-> "sleep", d |-> 2 * (k \div 2)]]

\* C1 (as stated): rate-limited answers do not use up the attempts, so a call
\* with the default max_retries that only ever got rate-limited answers, and
\* would have succeeded on the next send, does not return false.
C1_RateLimitUncounted ==
    (/\ Returned
     /\ max_retries = DefaultMaxRetries
     /\ OutcomeKinds \subseteq {"retry_after", "ok"})
        => ss_result = "true"

\* C2: when every attempt fails with a network error, exactly max_retries
\* sends are made, 2*i is slept after the i-th failed attempt for
\* i = 1..max_retries-1, nothing is slept after the last, the total slept is
\* the sum of those delays, and the call returns false.
C2_NetworkRetries ==
    (Returned /\ OutcomeKinds \subseteq {"network"}) =>
        /\ Len(ss_outcomes) = max_retries
        /\ ss_log = NetworkOnlyLog(max_retries)
        /\ TotalSleep(ss_log) = max_retries * (max_retries - 1)
        /\ ss_result = "false"

C2_Witness ==
    /\ Returned
    /\ max_retries = MaxRetriesArg
    /\ Len(ss_outcomes) = max_retries
    /\ OutcomeKinds = {"network"}

\* C3: a rejection by the recipient, or any other unexpected error, ends the
\* call at once with false: it is the last outcome, and the send that got it
\* is the last call made (no sleep, no further send).
C3_NoRetryAfterRejection ==
    \A i \in 1..Len(ss_outcomes) :
        ss_outcomes[i].kind \in {"api", "other"} =>
            /\ i = Len(ss_outcomes)
            /\ Returned
            /\ ss_result = "false"
            /\ ss_log[Len(ss_log)] = SendEvent

C3_Witness ==
    /\ Returned
    /\ Len(ss_outcomes) = 2
    /\ ss_outcomes[1].kind = "network"
    /\ ss_outcomes[2].kind = "api"
    /\ max_retries = DefaultMaxRetries

\* C4: whatever the transport answers, no exception leaves safe_send_message
\* and the call ends by returning true or false.
C4_AlwaysReturnsBoolean ==
    /\ [](ss_pc # "raised")
    /\ <>(Returned /\ ss_result \in {"true", "false"})

C4_Witness ==
    /\ Returned
    /\ Len(ss_outcomes) = 3
    /\ ss_outcomes[1].kind = "retry_after"
    /\ ss_outcomes[2].kind = "network"
    /\ ss_outcomes[3].kind = "other"
    /\ ss_result = "false"

\* The transport calls of the log.
SendsMade ==
    Cardinality({k \in 1..Len(ss_log) : ss_log[k].ev \in {"send_message", "send_photo"}})

\* C25: whatever the transport answers, rate limits included, one call makes
\* at most max_retries send attempts, and it terminates.
C25_BoundedAttempts ==
    /\ [](SendsMade <= max_retries /\ Len(ss_outcomes) = SendsMade)
    /\ <>(ss_pc # "loop")

\* Every attempt of a default call was rate-limited, and the call is over.
C25_Witness ==
    /\ ss_pc = "done"
    /\ max_retries = DefaultMaxRetries
    /\ SendsMade = DefaultMaxRetries
    /\ OutcomeKinds = {"retry_after"}

\* =========================================================================
\* check_subscription
\* =========================================================================

\* Python truth of a channel id.
Truthy(v) == v \notin {"None", ""}

AllConfigured_Any(ids) == \E c \in ChannelNames : Truthy(ids[c])

\* all(channel_ids.values())
AllConfigured(ids) == \A c \in ChannelNames : Truthy(ids[c])

ErrorVerdict_FailOpen == TRUE

\* except Exception: statuses.append(False)
ErrorVerdict == FALSE

\* if not all(channel_ids.values()): return True
CheckSubscriptionBypass ==
    /\ cs_pc = "start"
    /\ ~AllConfigured(channel_ids)
    /\ cs_pc' = "done"
    /\ cs_result' = "true"
    /\ UNCHANGED <<channel_ids, membership, statuses, cs_lookups>>
    /\ UNCHANGED notSub

\* statuses = []
CheckSubscriptionBegin ==
    /\ cs_pc = "start"
    /\ AllConfigured(channel_ids)
    /\ cs_pc' = "loop"
    /\ statuses' = << >>
    /\ UNCHANGED <<channel_ids, membership, cs_lookups, cs_result>>
    /\ UNCHANGED notSub

\* The channel of the current iteration of the for loop.
NextChannel == Channels[Len(cs_lookups) + 1]

\* member = await bot.get_chat_member(...); statuses.append(member.status in
\* [ChatMemberStatus.MEMBER, ChatMemberStatus.ADMINISTRATOR,
\* ChatMemberStatus.CREATOR])
LookupMember ==
    /\ cs_pc = "loop"
    /\ Len(cs_lookups) < Len(Channels)
    /\ membership[NextChannel] # "error"
    /\ cs_lookups' = Append(cs_lookups, NextChannel)
    /\ statuses' = Append(statuses,
                          membership[NextChannel]
                              \in {"member", "administrator", "creator"})
    /\ UNCHANGED <<channel_ids, membership, cs_pc, cs_result>>
    /\ UNCHANGED notSub

\* get_chat_member raised: statuses.append(False)
LookupError ==
    /\ cs_pc = "loop"
    /\ Len(cs_lookups) < Len(Channels)
    /\ membership[NextChannel] = "error"
    /\ cs_lookups' = Append(cs_lookups, NextChannel)
    /\ statuses' = Append(statuses, ErrorVerdict)
    /\ UNCHANGED <<channel_ids, membership, cs_pc, cs_result>>
    /\ UNCHANGED notSub

\* result = all(statuses); return result
CheckSubscriptionReturn ==
    /\ cs_pc = "loop"
    /\ Len(cs_lookups) = Len(Channels)
    /\ cs_pc' = "done"
    /\ cs_result' = (IF \A i \in 1..Len(statuses) : statuses[i]
                     THEN "true" ELSE "false")
    /\ UNCHANGED <<channel_ids, membership, statuses, cs_lookups>>
    /\ UNCHANGED notSub

\* One call of check_subscription, for any configuration (a channel id not
\* set, set to the empty string, or set) and any membership
\* (bot.get_chat_member answers the member's status, or raises).
InitSub ==
    /\ channel_ids \in [ChannelNames -> {"None", "", "-1001"}]
    /\ membership \in [ChannelNames -> {"member", "administrator", "creator",
                                       "left", "kicked", "error"}]
    /\ cs_pc = "start"
    /\ statuses = << >>
    /\ cs_lookups = << >>
    /\ cs_result = "none"
    /\ SendIdle
    /\ SchedIdle
    /\ AdminIdle
    /\ RaffleIdle
    /\ LoopIdle
    /\ RegIdle

NextSub ==
    \/ CheckSubscriptionBypass
    \/ CheckSubscriptionBegin
    \/ LookupMember
    \/ LookupError
    \/ CheckSubscriptionReturn

SpecSub == InitSub /\ [][NextSub]_vars

\* ------------------------------------------------ claims on check_subscription

\* C5: with all four ids configured, the result is true exactly when each of
\* the four lookups answers member, administrator or creator; a lookup that
\* raises counts as not subscribed, and all four channels are queried, in
\* order, also after one of the lookups failed.
C5_AllChannelsFailClosed ==
    (cs_pc = "done" /\ AllConfigured(channel_ids)) =>
        /\ cs_lookups = Channels
        /\ cs_result \in {"true", "false"}
        /\ cs_result = "true" <=>
              \A c \in ChannelNames :
                  membership[c] \in {"member", "administrator", "creator"}

C5_Witness ==
    /\ cs_pc = "done"
    /\ AllConfigured(channel_ids)
    /\ membership["MAIN"] = "error"
    /\ \A c \in ChannelNames \ {"MAIN"} : membership[c] = "member"
    /\ cs_lookups = Channels
    /\ cs_result = "false"

\* C6: when the id of at least one channel is unset or empty, no membership
\* lookup is ever made and the call returns true, whatever the membership.
C6_UnsetChannelBypass ==
    (\E c \in ChannelNames : channel_ids[c] \in {"None", ""}) =>
        /\ cs_lookups = << >>
        /\ cs_pc = "done" => cs_result = "true"

C6_Witness ==
    /\ cs_pc = "done"
    /\ cs_result = "true"
    /\ channel_ids["NATALIA"] = "None"
    /\ \A c \in ChannelNames \ {"NATALIA"} : channel_ids[c] = "-1001"
    /\ \A c \in ChannelNames : membership[c] = "left"

\* =========================================================================
\* The user store
\* =========================================================================

UserIds == 1..MaxUsers

RECURSIVE Ascending(_)
\* The elements of a set of numbers as a list, smallest first.
Ascending(S) ==
    IF S = {} THEN << >>
    ELSE LET m == CHOOSE x \in S : \A y \in S : x <= y
         IN  <<m>> \o Ascending(S \ {m})

\* get_all_registered_users: SELECT user_id FROM users WHERE subscribed = 1
\* (rows come in user_id order, the table's primary key); the empty list when
\* the store cannot be read.
GetAllRegisteredUsers(available) ==
    IF available THEN Ascending(db_subscribed) ELSE << >>

\* =========================================================================
\* The campaign calendar (config.py) and the messages (messages.py)
\* =========================================================================

\* now = datetime.now(); (now.year, now.month, now.day, now.hour, now.minute),
\* for a clock that counts the seconds since 2025-01-01 00:00:00 and stays
\* within January.
TimeTuple(t) ==
    <<2025, 1, 1 + (t \div 86400), (t \div 3600) % 24, (t \div 60) % 60>>

\* The scheduler starts within the minute 00:58 and is followed for
\* MaxMinutes minutes.
StartClock == 58 * 60

StartSeconds == {0, 59}

MaxClock == StartClock + MaxMinutes * 60 + 59

\* BROADCASTS: two broadcast days with the dates of their reminders.  The
\* hour-before reminder of the first falls in the same minute as the
\* day-before reminder of the second, and the after-broadcast message of the
\* second in the same minute as the end of the marathon.
BROADCASTS ==
    << [day |-> 1,
        reminders |-> [day_before  |-> [date |-> <<2025, 1, 1, 0, 59>>],
                       hour_before |-> [date |-> <<2025, 1, 1, 1, 0>>],
                       after       |-> [date |-> <<2025, 1, 1, 1, 1>>]]],
       [day |-> 2,
        reminders |-> [day_before  |-> [date |-> <<2025, 1, 1, 1, 0>>],
                       hour_before |-> [date |-> <<2025, 1, 1, 1, 1>>],
                       after       |-> [date |-> <<2025, 1, 1, 1, 2>>]]] >>

MARATHON_END_DATE == <<2025, 1, 1, 1, 2>>

\* get_day_before_message(broadcast), ...: the message a reminder sends.
DayBeforeMessage(b) == <<"day_before", b.day>>
HourBeforeMessage(b) == <<"hour_before", b.day>>
AfterBroadcastMessage(b) == <<"after", b.day>>
MESSAGE_MARATHON_END == <<"marathon_end", 0>>

\* =========================================================================
\* check_and_send_reminders and scheduler_loop
\* =========================================================================

\* The date each `if current_time == ...` of the tick compares with.
DayBeforeDate(b) == b.reminders.day_before.date

HourBeforeDate_CopyPaste(b) == b.reminders.day_before.date

HourBeforeDate(b) == b.reminders.hour_before.date

AfterDate(b) == b.reminders.after.date

\* The date comparisons of one tick, in the order the code makes them: three
\* per broadcast, then the end of the marathon.
Checks ==
    [p \in 1..(3 * Len(BROADCASTS) + 1) |->
        IF p > 3 * Len(BROADCASTS)
        THEN [kind |-> "marathon_end", day |-> 0,
              date |-> MARATHON_END_DATE, message |-> MESSAGE_MARATHON_END]
        ELSE LET b == BROADCASTS[((p - 1) \div 3) + 1]
             IN  CASE (p - 1) % 3 = 0 ->
                        [kind |-> "day_before", day |-> b.day,
                         date |-> DayBeforeDate(b), message |-> DayBeforeMessage(b)]
                   [] (p - 1) % 3 = 1 ->
                        [kind |-> "hour_before", day |-> b.day,
                         date |-> HourBeforeDate(b), message |-> HourBeforeMessage(b)]
                   [] OTHER ->
                        [kind |-> "after", day |-> b.day,
                         date |-> AfterDate(b), message |-> AfterBroadcastMessage(b)]]

NChecks == Len(Checks)

\* What safe_send_message returns to the fan-out.
SendResults == {"true", "false"}

CaughtByLoop_Nothing == FALSE

\* scheduler_loop: `except Exception` around the tick.
CaughtByLoop == TRUE

LastTick == ticks[Len(ticks)]

EndTick(outcome) == [ticks EXCEPT ![Len(ticks)].outcome = outcome]

\* now = datetime.now(); users = await get_all_registered_users();
\* if not users: return
TickBegin ==
    /\ sl_pc = "tick"
    /\ \E available \in BOOLEAN :
          LET us == GetAllRegisteredUsers(available)
          IN  /\ users' = us
              /\ ticks' = Append(ticks,
                    [current_time |-> TimeTuple(clock), users |-> us,
                     outcome |-> IF us = << >> THEN "returned" ELSE "running"])
              /\ sl_pc' = IF us = << >> THEN "sleep" ELSE "checks"
    /\ current_time' = TimeTuple(clock)
    /\ tk_pos' = 1
    /\ tk_i' = 0
    /\ tk_fanouts' = << >>
    /\ tk_sends' = << >>
    /\ UNCHANGED <<clock, fired, db_subscribed>>
    /\ UNCHANGED notSched

AtCheck == sl_pc = "checks" /\ tk_i = 0 /\ tk_pos <= NChecks

\* if current_time == <date>: message = ...; the fan-out begins
TickCheckMatch ==
    /\ AtCheck
    /\ current_time = Checks[tk_pos].date
    /\ tk_fanouts' = Append(tk_fanouts,
                            [check |-> tk_pos, message |-> Checks[tk_pos].message])
    /\ fired' = [fired EXCEPT ![tk_pos] = @ + 1]
    /\ tk_i' = 1
    /\ UNCHANGED <<clock, sl_pc, current_time, users, tk_pos, tk_sends, ticks,
                   db_subscribed>>
    /\ UNCHANGED notSched

\* the condition is false: on to the next comparison
TickCheckSkip ==
    /\ AtCheck
    /\ current_time # Checks[tk_pos].date
    /\ tk_pos' = tk_pos + 1
    /\ UNCHANGED <<clock, sl_pc, current_time, users, tk_i, tk_fanouts, tk_sends,
                   fired, ticks, db_subscribed>>
    /\ UNCHANGED notSched

NextRecipient_StopOnFailure(i, n, r) == IF i < n /\ r = "true" THEN i + 1 ELSE 0

\* for user_id in users: after the send to the recipient at position i of n,
\* which returned r, the loop takes the next position; 0 when it is over.
\* The value safe_send_message returned is not looked at.
NextRecipient(i, n, r) == IF i < n THEN i + 1 ELSE 0

FanoutList_WithNewcomers ==
    users \o Ascending(db_subscribed \ {users[i] : i \in 1..Len(users)})

\* for user_id in users: the list a fan-out of the tick goes through is the
\* one the tick read at its start.
FanoutList == users

\* for user_id in users: await safe_send_message(bot, user_id, message);
\* await asyncio.sleep(0.05).  The two take, in whole seconds, no time to
\* speak of, a second, or a minute of retries and rate-limit waits.
TickSend ==
    /\ sl_pc = "checks"
    /\ tk_i >= 1
    /\ \E r \in SendResults, d \in {0, 1, 60} :
          /\ clock + d <= MaxClock
          /\ clock' = clock + d
          /\ tk_sends' = Append(tk_sends,
                [check |-> tk_pos, user |-> FanoutList[tk_i], result |-> r])
          /\ tk_i' = NextRecipient(tk_i, Len(FanoutList), r)
          /\ tk_pos' = IF NextRecipient(tk_i, Len(FanoutList), r) = 0
                       THEN tk_pos + 1 ELSE tk_pos
    /\ UNCHANGED <<sl_pc, current_time, users, tk_fanouts, fired, ticks,
                   db_subscribed>>
    /\ UNCHANGED notSched

\* the end of check_and_send_reminders
TickReturn ==
    /\ sl_pc = "checks"
    /\ tk_i = 0
    /\ tk_pos > NChecks
    /\ sl_pc' = "sleep"
    /\ ticks' = EndTick("returned")
    /\ UNCHANGED <<clock, current_time, users, tk_pos, tk_i, tk_fanouts, tk_sends,
                   fired, db_subscribed>>
    /\ UNCHANGED notSched

\* Rendering the message of a matching reminder raises: the exception leaves
\* check_and_send_reminders.
TickRenderError ==
    /\ AtCheck
    /\ current_time = Checks[tk_pos].date
    /\ sl_pc' = "raised"
    /\ ticks' = EndTick("raised")
    /\ UNCHANGED <<clock, current_time, users, tk_pos, tk_i, tk_fanouts, tk_sends,
                   fired, db_subscribed>>
    /\ UNCHANGED notSched

\* except Exception as e: logger.error(...)
LoopExcept ==
    /\ sl_pc = "raised"
    /\ sl_pc' = IF CaughtByLoop THEN "sleep" ELSE "crashed"
    /\ UNCHANGED <<clock, current_time, users, tk_pos, tk_i, tk_fanouts, tk_sends,
                   fired, ticks, db_subscribed>>
    /\ UNCHANGED notSched

\* await asyncio.sleep(60), then the next iteration of `while True`
LoopSleep ==
    /\ sl_pc = "sleep"
    /\ clock + SleepSeconds <= MaxClock
    /\ clock' = clock + SleepSeconds
    /\ sl_pc' = "tick"
    /\ UNCHANGED <<current_time, users, tk_pos, tk_i, tk_fanouts, tk_sends,
                   fired, ticks, db_subscribed>>
    /\ UNCHANGED notSched

\* The scheduler starts in the minute before the first reminder, with any set of registered users.
InitSched ==
    /\ db_subscribed \in SUBSET UserIds
    /\ \E s \in StartSeconds : clock = StartClock + s
    /\ sl_pc = "tick"
    /\ current_time = << >>
    /\ users = << >>
    /\ tk_pos = 0
    /\ tk_i = 0
    /\ tk_fanouts = << >>
    /\ tk_sends = << >>
    /\ fired = [p \in 1..NChecks |-> 0]
    /\ ticks = << >>
    /\ SendIdle
    /\ SubIdle
    /\ AdminIdle
    /\ RaffleIdle
    /\ LoopIdle
    /\ RegIdle

NextSched ==
    \/ TickBegin
    \/ TickCheckMatch
    \/ TickCheckSkip
    \/ TickSend
    \/ TickReturn
    \/ LoopSleep

\* The scheduler when every message renders.
SpecSched == InitSched /\ [][NextSched]_vars

NextSchedErr ==
    \/ NextSched
    \/ TickRenderError
    \/ LoopExcept

\* The scheduler when rendering a message can raise.
SpecSchedErr == InitSched /\ [][NextSchedErr]_vars

\* The scheduler is suspended in an await, and other coroutines of the event
\* loop run: before the SELECT of its read (in asyncio.sleep(60), or in
\* aiosqlite.connect), after the SELECT (the connection is being closed and
\* no date has been compared yet), in a fan-out (in a send or in the pause
\* after it), and in the sleep after the tick.  Between the return of the
\* read and the first send, and between two fan-outs, nothing is awaited.
TickSuspended ==
    \/ sl_pc \in {"tick", "sleep"}
    \/ sl_pc = "checks" /\ tk_i >= 1
    \/ sl_pc = "checks" /\ tk_i = 0 /\ tk_pos = 1

\* A registration handler on the event loop commits mark_subscribed for a user
\* while the tick is suspended: UPDATE users SET subscribed = 1.
MarkSubscribedMeanwhile ==
    /\ TickSuspended
    /\ \E u \in UserIds \ db_subscribed :
          db_subscribed' = db_subscribed \cup {u}
    /\ UNCHANGED schedVars
    /\ UNCHANGED notSched

\* update_user_subscription_status(user_id, False) is committed for a user
\* while the tick is suspended: UPDATE users SET subscribed = 0.
FlagClearedMeanwhile ==
    /\ TickSuspended
    /\ \E u \in db_subscribed :
          db_subscribed' = db_subscribed \ {u}
    /\ UNCHANGED schedVars
    /\ UNCHANGED notSched

\* scheduler_loop is about to call check_and_send_reminders, at any second of
\* the minutes followed and with any set of registered users; the ticks and
\* the fan-outs are counted from this call on.
InitTick ==
    /\ db_subscribed \in SUBSET UserIds
    /\ \E m \in 0..MaxMinutes : \E s \in StartSeconds :
          clock = StartClock + 60 * m + s
    /\ sl_pc = "tick"
    /\ current_time = << >>
    /\ users = << >>
    /\ tk_pos = 0
    /\ tk_i = 0
    /\ tk_fanouts = << >>
    /\ tk_sends = << >>
    /\ fired = [p \in 1..NChecks |-> 0]
    /\ ticks = << >>
    /\ SendIdle
    /\ SubIdle
    /\ AdminIdle
    /\ RaffleIdle
    /\ LoopIdle
    /\ RegIdle

NextTick ==
    \/ TickBegin
    \/ TickCheckMatch
    \/ TickCheckSkip
    \/ TickSend
    \/ TickReturn
    \/ MarkSubscribedMeanwhile
    \/ FlagClearedMeanwhile

\* One call of check_and_send_reminders while the subscribed flags change
\* wherever the call is suspended.
SpecTick == InitTick /\ [][NextTick]_vars

\* ------------------------------------------------------ claims on the scheduler

\* The tick has come to its end and the loop is about to sleep.
TickEnded == sl_pc = "sleep"

\* The date the configuration gives the reminder a message belongs to.
ConfiguredDate(msg) ==
    IF msg[1] = "marathon_end" THEN MARATHON_END_DATE
    ELSE BROADCASTS[msg[2]].reminders[msg[1]].date

\* How many fan-outs of this tick carried the message msg.
FanoutsWith(msg) ==
    Cardinality({i \in 1..Len(tk_fanouts) : tk_fanouts[i].message = msg})

\* Every fan-out of the tick belongs to a reminder dated current_time.
OnlyMatchingFanouts ==
    \A i \in 1..Len(tk_fanouts) :
        ConfiguredDate(tk_fanouts[i].message) = current_time

\* C7 (as stated): a tick whose current_time is the hour_before date of a
\* broadcast makes exactly one fan-out with that broadcast's hour-before
\* message, and none for a reminder dated otherwise.
C7_HourBeforeFanout ==
    /\ OnlyMatchingFanouts
    /\ \A bi \in 1..Len(BROADCASTS) :
          (TickEnded /\ current_time = BROADCASTS[bi].reminders.hour_before.date)
              => FanoutsWith(<<"hour_before", BROADCASTS[bi].day>>) = 1

\* C7 (amended): the same, for a tick that read at least one registered user;
\* a tick that read none makes no fan-out at all.
C7_HourBeforeFanoutWithUsers ==
    /\ OnlyMatchingFanouts
    /\ \A bi \in 1..Len(BROADCASTS) :
          (TickEnded /\ current_time = BROADCASTS[bi].reminders.hour_before.date)
              => FanoutsWith(<<"hour_before", BROADCASTS[bi].day>>)
                    = (IF users = << >> THEN 0 ELSE 1)
    /\ users = << >> => tk_fanouts = << >>

C7_Witness ==
    /\ TickEnded
    /\ users # << >>
    /\ current_time = BROADCASTS[1].reminders.hour_before.date
    /\ FanoutsWith(<<"hour_before", 1>>) = 1
    /\ Len(tk_fanouts) = 2

\* a is an earlier minute than b
TupleLess(a, b) ==
    \E k \in 1..5 : a[k] < b[k] /\ \A j \in 1..(k - 1) : a[j] = b[j]

\* C8 (as stated): once the loop, running since before a reminder's minute
\* with registered users at every tick, has got past that minute, the
\* reminder has been fanned out exactly once.
C8_EachReminderExactlyOnce ==
    \A p \in 1..NChecks :
        (/\ ticks # << >>
         /\ \A i \in 1..Len(ticks) : ticks[i].users # << >>
         /\ TupleLess(ticks[1].current_time, Checks[p].date)
         /\ TupleLess(Checks[p].date, LastTick.current_time))
            => fired[p] = 1

\* C9: an error inside a tick never ends scheduler_loop.  A tick that raised
\* is followed by the sleep, the sleep lasts 60 and is followed by a tick,
\* and that tick reads the clock and the users anew and starts at the first
\* date comparison with no fan-out made.
C9_TickErrorsSwallowed ==
    /\ [](sl_pc # "crashed")
    /\ [][/\ sl_pc = "raised" => (sl_pc' = "sleep" /\ clock' = clock)
          /\ sl_pc = "sleep" => (sl_pc' = "tick" /\ clock' = clock + 60)
          /\ sl_pc = "tick" =>
                /\ sl_pc' \in {"checks", "sleep"}
                /\ current_time' = TimeTuple(clock)
                /\ users' \in {Ascending(db_subscribed), << >>}
                /\ tk_pos' = 1 /\ tk_i' = 0 /\ tk_fanouts' = << >>]_vars

\* A tick raised, and the tick after it has started a fan-out.
C9_Witness ==
    /\ Len(ticks) >= 2
    /\ ticks[Len(ticks) - 1].outcome = "raised"
    /\ tk_fanouts # << >>
    /\ tk_sends # << >>

\* C19: the clock only moves forward, and each tick of scheduler_loop computes
\* a later (year, month, day, hour, minute) than the tick before it, so no two
\* ticks compute the same tuple and no reminder has had two fan-outs.
C19_NoMinuteTwice ==
    /\ \A i \in 1..Len(ticks) : \A j \in 1..Len(ticks) :
          i < j => TupleLess(ticks[i].current_time, ticks[j].current_time)
    /\ \A p \in 1..NChecks : fired[p] <= 1

\* Three ticks have run, and a reminder was fanned out by a tick that is not
\* the last one.
C19_Witness ==
    /\ Len(ticks) >= 3
    /\ \E p \in 1..NChecks :
          /\ fired[p] = 1
          /\ TupleLess(Checks[p].date, LastTick.current_time)
    /\ tk_sends = << >>
    /\ sl_pc = "sleep"

\* The users the tick has sent the message of fan-out f to, in order.
SentOfFanout(f) ==
    [j \in 1..(IF Len(tk_sends) - (f - 1) * Len(users) < Len(users)
               THEN Len(tk_sends) - (f - 1) * Len(users)
               ELSE Len(users)) |->
        tk_sends[(f - 1) * Len(users) + j].user]

\* C30: the list a tick reads is the users whose flag is true at that moment
\* (or empty), and every fan-out of the tick goes to that list and to nobody
\* else, whatever happens to the flags while it runs: a fan-out that is over
\* has sent to each user of the list once, one under way to the first of
\* them; and a tick with an empty list sends nothing.
C30_RecipientsAsRead ==
    /\ [][(sl_pc = "tick" /\ sl_pc' # "tick") =>
             (users' = Ascending(db_subscribed) \/ users' = << >>)]_vars
    /\ [](sl_pc \in {"checks", "sleep"} =>
             /\ Len(tk_sends) <= Len(tk_fanouts) * Len(users)
             /\ \A f \in 1..Len(tk_fanouts) :
                   (f < Len(tk_fanouts) \/ tk_i = 0) => SentOfFanout(f) = users
             /\ \A f \in 1..Len(tk_fanouts) :
                   SentOfFanout(f) = SubSeq(users, 1, Len(SentOfFanout(f)))
             /\ \A j \in 1..Len(tk_sends) :
                   tk_sends[j].check =
                       tk_fanouts[((j - 1) \div Len(users)) + 1].check)
    /\ [](users = << >> => tk_sends = << >>)

\* A tick has ended after a fan-out during which a user of its list lost the
\* flag and another user gained it: the first was sent to, the second not.
C30_Witness ==
    /\ sl_pc = "sleep"
    /\ tk_fanouts # << >>
    /\ \E u \in db_subscribed :
          /\ \A i \in 1..Len(users) : users[i] # u
          /\ \A j \in 1..Len(tk_sends) : tk_sends[j].user # u
    /\ \E i \in 1..Len(users) :
          /\ users[i] \notin db_subscribed
          /\ \E j \in 1..Len(tk_sends) : tk_sends[j].user = users[i]

\* =========================================================================
\* confirm_send_callback: the administrator's broadcast
\* =========================================================================

\* The two counters.
Counts == [success |-> success_count, error |-> error_count]

\* success_count += 1
CountSuccess(c) == [c EXCEPT !.success = @ + 1]

CountError_Lost(c) == c

\* except Exception: error_count += 1
CountError(c) == [c EXCEPT !.error = @ + 1]

\* A handler runs from where it is resumed to its next await.  A reply counts
\* from the moment the handler asks the transport for it: the handler is then
\* suspended, every other handler can run, and when it is resumed the
\* transport has answered or raised.  message.answer, message.answer_photo and
\* callback.answer raise into the handler, which ends there;
\* safe_edit_message catches whatever its calls raise.  The FSM storage is
\* MemoryStorage, whose calls do not suspend.

\* confirm_send_callback without message_data: callback.answer("Ошибка: ...")
\* has returned or raised; state.clear() if it returned; return.
ConfirmSendNoData ==
    /\ ad_pc = "no_data"
    /\ ad_pc' = "done"
    /\ \E raised \in BOOLEAN :
          /\ fsm_state' = IF raised THEN fsm_state ELSE "None"
          /\ message_data' = IF raised THEN message_data ELSE "none"
    /\ UNCHANGED <<ad_users, ad_i, success_count, error_count, ad_outcomes,
                   ad_paced, ad_report, ad_data, dg_calls, dg_reply>>
    /\ UNCHANGED dialogFixed
    /\ UNCHANGED notAdmin

\* safe_edit_message("⏳ ...") is over and callback.answer() has returned, or
\* raised, which ends the call; users = await get_all_registered_users();
\* if not users: callback.message.answer("❌ Нет ..."), in which the call is
\* suspended; else success_count = 0; error_count = 0 and the loop begins.
ConfirmSendBegin ==
    /\ ad_pc = "confirm"
    /\ \E raised, available \in BOOLEAN :
          LET us == GetAllRegisteredUsers(available)
          IN  /\ ad_users' = IF raised THEN ad_users ELSE us
              /\ ad_pc' = IF raised THEN "done"
                          ELSE IF us = << >> THEN "no_users"
                          ELSE "sending"
              /\ dg_reply' = IF ~raised /\ us = << >> THEN "no_users"
                             ELSE dg_reply
    /\ ad_i' = 0
    /\ success_count' = 0
    /\ error_count' = 0
    /\ UNCHANGED <<ad_outcomes, ad_paced, ad_report, ad_data, dg_calls,
                   fsm_state, message_data>>
    /\ UNCHANGED dialogFixed
    /\ UNCHANGED notAdmin

\* callback.message.answer("❌ Нет ...") has returned or raised; state.clear()
\* if it returned; return.
ConfirmSendNoUsers ==
    /\ ad_pc = "no_users"
    /\ ad_pc' = "done"
    /\ \E raised \in BOOLEAN :
          /\ fsm_state' = IF raised THEN fsm_state ELSE "None"
          /\ message_data' = IF raised THEN message_data ELSE "none"
    /\ UNCHANGED <<ad_users, ad_i, success_count, error_count, ad_outcomes,
                   ad_paced, ad_report, ad_data, dg_calls, dg_reply>>
    /\ UNCHANGED dialogFixed
    /\ UNCHANGED notAdmin

\* One iteration of `for user_id in users`: the send went through;
\* success_count += 1; await asyncio.sleep(0.05), the last statement of the
\* try block.
AdminSendOk ==
    /\ ad_pc = "sending"
    /\ ad_i < Len(ad_users)
    /\ ad_i' = ad_i + 1
    /\ ad_outcomes' = ad_outcomes (+) SetToBag({"ok"})
    /\ ad_paced' = ad_paced (+) SetToBag({TRUE})
    /\ success_count' = CountSuccess(Counts).success
    /\ error_count' = CountSuccess(Counts).error
    /\ UNCHANGED <<ad_pc, ad_users, ad_report, ad_data, dg_calls, fsm_state,
                   message_data, dg_reply>>
    /\ UNCHANGED dialogFixed
    /\ UNCHANGED notAdmin

\* One iteration of `for user_id in users`: the send raised and left the try
\* block before the pacing sleep; except Exception: error_count += 1, with
\* no sleep.
AdminSendError ==
    /\ ad_pc = "sending"
    /\ ad_i < Len(ad_users)
    /\ \E o \in {"retry_after", "network", "api", "other"} :
          ad_outcomes' = ad_outcomes (+) SetToBag({o})
    /\ ad_paced' = ad_paced (+) SetToBag({FALSE})
    /\ ad_i' = ad_i + 1
    /\ success_count' = CountError(Counts).success
    /\ error_count' = CountError(Counts).error
    /\ UNCHANGED <<ad_pc, ad_users, ad_report, ad_data, dg_calls, fsm_state,
                   message_data, dg_reply>>
    /\ UNCHANGED dialogFixed
    /\ UNCHANGED notAdmin

\* The loop is over: result_text with the two counts and len(users), and
\* safe_edit_message(result_text), in which the call is suspended.
AdminReport ==
    /\ ad_pc = "sending"
    /\ ad_i = Len(ad_users)
    /\ ad_report' = <<[success |-> success_count, error |-> error_count,
                       total |-> Len(ad_users)]>>
    /\ ad_pc' = "report"
    /\ UNCHANGED <<ad_users, ad_i, success_count, error_count, ad_outcomes,
                   ad_paced, ad_data, dg_calls, fsm_state, message_data,
                   dg_reply>>
    /\ UNCHANGED dialogFixed
    /\ UNCHANGED notAdmin

\* safe_edit_message(result_text) is over;
\* callback.message.answer("Рассылка завершена"), in which the call is
\* suspended.
ConfirmSendAnswer ==
    /\ ad_pc = "report"
    /\ ad_pc' = "answer"
    /\ dg_reply' = "finished"
    /\ UNCHANGED <<ad_users, ad_i, success_count, error_count, ad_outcomes,
                   ad_paced, ad_report, ad_data, dg_calls, fsm_state,
                   message_data>>
    /\ UNCHANGED dialogFixed
    /\ UNCHANGED notAdmin

\* callback.message.answer("Рассылка завершена") has returned or raised;
\* state.clear() if it returned.
ConfirmSendFinish ==
    /\ ad_pc = "answer"
    /\ ad_pc' = "done"
    /\ \E raised \in BOOLEAN :
          /\ fsm_state' = IF raised THEN fsm_state ELSE "None"
          /\ message_data' = IF raised THEN message_data ELSE "none"
    /\ UNCHANGED <<ad_users, ad_i, success_count, error_count, ad_outcomes,
                   ad_paced, ad_report, ad_data, dg_calls, dg_reply>>
    /\ UNCHANGED dialogFixed
    /\ UNCHANGED notAdmin

\* The administrator pressed "confirm" in the state confirm_send, with or
\* without a message in the FSM data and with any set of registered users:
\* confirm_send_callback has read the data and is suspended in its first reply.
InitAdmin ==
    /\ db_subscribed \in SUBSET UserIds
    /\ admin_ids \in SUBSET UserIds
    /\ dg_user \in admin_ids
    /\ fsm_state = "confirm_send"
    /\ message_data \in {"none", "text", "photo"}
    /\ ad_data = message_data
    /\ ad_pc = IF message_data = "none" THEN "no_data" ELSE "confirm"
    /\ dg_reply = IF message_data = "none" THEN "no_data" ELSE "sending"
    /\ ad_users = << >>
    /\ ad_i = 0
    /\ success_count = 0
    /\ error_count = 0
    /\ ad_outcomes = EmptyBag
    /\ ad_paced = EmptyBag
    /\ ad_report = << >>
    /\ dg_calls = EmptyBag
    /\ clock = 0
    /\ sl_pc = "idle"
    /\ current_time = << >>
    /\ users = << >>
    /\ tk_pos = 0
    /\ tk_i = 0
    /\ tk_fanouts = << >>
    /\ tk_sends = << >>
    /\ fired = << >>
    /\ ticks = << >>
    /\ SendIdle
    /\ SubIdle
    /\ RaffleIdle
    /\ LoopIdle
    /\ RegIdle

NextAdmin ==
    \/ ConfirmSendNoData
    \/ ConfirmSendBegin
    \/ ConfirmSendNoUsers
    \/ AdminSendOk
    \/ AdminSendError
    \/ AdminReport
    \/ ConfirmSendAnswer
    \/ ConfirmSendFinish

SpecAdmin == InitAdmin /\ [][NextAdmin]_vars

\* ------------------------------------------------------- the /send dialog

SendRefusal_Never(user_id) == "none"

\* cmd_send: `if not ADMIN_IDS` and `if message.from_user.id not in
\* ADMIN_IDS`: the answer that refuses the command, "none" when it is accepted.
SendRefusal(user_id) ==
    IF admin_ids = {} THEN "unavailable"
    ELSE IF user_id \notin admin_ids THEN "no_rights"
    ELSE "none"

\* How many handler calls of the user are suspended with statements still to
\* run.
Suspended ==
    BagCardinality(dg_calls)
        + (IF ad_pc \in {"no_data", "confirm", "no_users", "sending", "report",
                         "answer"} THEN 1 ELSE 0)

\* cmd_stats: /stats, in any state.  The same two refusals as cmd_send, then
\* the number of registered users (0 when the store cannot be read).  Nothing
\* follows the answer.
CmdStats ==
    /\ IF SendRefusal(dg_user) # "none"
       THEN dg_reply' = SendRefusal(dg_user)
       ELSE \E available \in BOOLEAN :
               dg_reply' =
                   "stats " \o ToString(Len(GetAllRegisteredUsers(available)))
    /\ UNCHANGED <<followedVars, dg_calls, fsm_state, message_data>>
    /\ UNCHANGED dialogFixed
    /\ UNCHANGED notAdmin

\* cmd_send: /send, in any state: refused with an answer, or
\* message.answer("📤 ..."), in which the call is suspended.
CmdSend ==
    /\ IF SendRefusal(dg_user) # "none"
       THEN /\ dg_reply' = SendRefusal(dg_user)
            /\ UNCHANGED dg_calls
       ELSE /\ Suspended < MaxCalls
            /\ dg_reply' = "prompt"
            /\ dg_calls' = dg_calls (+) SetToBag({[pc |-> "prompt",
                                                   users |-> << >>, i |-> 0]})
    /\ UNCHANGED <<followedVars, fsm_state, message_data>>
    /\ UNCHANGED dialogFixed
    /\ UNCHANGED notAdmin

\* cmd_send: the answer has returned or raised;
\* state.set_state(waiting_for_message) if it returned.
CmdSendSetState ==
    \E f \in BagToSet(dg_calls) :
        /\ f.pc = "prompt"
        /\ dg_calls' = dg_calls (-) SetToBag({f})
        /\ \E raised \in BOOLEAN :
              fsm_state' = IF raised THEN fsm_state ELSE "waiting_for_message"
        /\ UNCHANGED <<followedVars, message_data, dg_reply>>
        /\ UNCHANGED dialogFixed
        /\ UNCHANGED notAdmin

\* cancel_send: the text "❌ Отменить" in the state waiting_for_message:
\* state.clear(); message.answer("❌ Отправка отменена").  Nothing follows the
\* answer.
CancelSend ==
    /\ fsm_state = "waiting_for_message"
    /\ fsm_state' = "None"
    /\ message_data' = "none"
    /\ dg_reply' = "cancelled"
    /\ UNCHANGED <<followedVars, dg_calls>>
    /\ UNCHANGED dialogFixed
    /\ UNCHANGED notAdmin

\* process_message_to_send: any other message in the state
\* waiting_for_message: state.update_data(message_data=...); the preview,
\* message.answer or message.answer_photo, in which the call is suspended.
ProcessMessageToSend ==
    /\ fsm_state = "waiting_for_message"
    /\ Suspended < MaxCalls
    /\ \E m \in {"text", "photo"} : message_data' = m
    /\ dg_reply' = "preview"
    /\ dg_calls' = dg_calls (+) SetToBag({[pc |-> "preview", users |-> << >>,
                                           i |-> 0]})
    /\ UNCHANGED <<followedVars, fsm_state>>
    /\ UNCHANGED dialogFixed
    /\ UNCHANGED notAdmin

\* process_message_to_send: the preview has returned or raised;
\* state.set_state(confirm_send) if it returned.
ProcessMessageSetState ==
    \E f \in BagToSet(dg_calls) :
        /\ f.pc = "preview"
        /\ dg_calls' = dg_calls (-) SetToBag({f})
        /\ \E raised \in BOOLEAN :
              fsm_state' = IF raised THEN fsm_state ELSE "confirm_send"
        /\ UNCHANGED <<followedVars, message_data, dg_reply>>
        /\ UNCHANGED dialogFixed
        /\ UNCHANGED notAdmin

\* cancel_send_callback: the button "cancel_send" in the state confirm_send:
\* state.clear(); safe_edit_message("❌ Отправка отменена"), in which the call
\* is suspended.
CancelSendCallback ==
    /\ fsm_state = "confirm_send"
    /\ Suspended < MaxCalls
    /\ fsm_state' = "None"
    /\ message_data' = "none"
    /\ dg_reply' = "cancelled"
    /\ dg_calls' = dg_calls (+) SetToBag({[pc |-> "cancel_edit",
                                           users |-> << >>, i |-> 0]})
    /\ UNCHANGED followedVars
    /\ UNCHANGED dialogFixed
    /\ UNCHANGED notAdmin

\* cancel_send_callback: safe_edit_message is over;
\* callback.answer("Отправка отменена"), in which the call is suspended.
CancelSendAlert ==
    \E f \in BagToSet(dg_calls) :
        /\ f.pc = "cancel_edit"
        /\ dg_calls' = (dg_calls (-) SetToBag({f}))
                          (+) SetToBag({[f EXCEPT !.pc = "cancel_alert"]})
        /\ dg_reply' = "cancel_alert"
        /\ UNCHANGED <<followedVars, fsm_state, message_data>>
        /\ UNCHANGED dialogFixed
        /\ UNCHANGED notAdmin

\* cancel_send_callback: callback.answer has returned or raised;
\* callback.message.answer("Команда отменена") if it returned.  Nothing
\* follows that answer.
CancelSendAnswer ==
    \E f \in BagToSet(dg_calls) :
        /\ f.pc = "cancel_alert"
        /\ dg_calls' = dg_calls (-) SetToBag({f})
        /\ \E raised \in BOOLEAN :
              dg_reply' = IF raised THEN dg_reply ELSE "command_cancelled"
        /\ UNCHANGED <<followedVars, fsm_state, message_data>>
        /\ UNCHANGED dialogFixed
        /\ UNCHANGED notAdmin

\* confirm_send_callback is entered: the button "confirm_send" in the state
\* confirm_send; data = await state.get_data(); message_data =
\* data.get("message_data"); if not message_data:
\* callback.answer("Ошибка: ..."), else safe_edit_message("⏳ ..."), in which
\* the call is suspended.  The call of confirm_send_callback entered before
\* and still running goes on among the other suspended calls, kept as its
\* position, its list of recipients and its place in the list, and the new
\* call is the one followed from here.
ConfirmSendCallback ==
    /\ fsm_state = "confirm_send"
    /\ Suspended < MaxCalls
    /\ dg_calls' = IF ad_pc \in {"idle", "done"} THEN dg_calls
                   ELSE dg_calls (+) SetToBag({[pc |-> ad_pc,
                                                users |-> ad_users,
                                                i |-> ad_i]})
    /\ ad_data' = message_data
    /\ ad_pc' = IF message_data = "none" THEN "no_data" ELSE "confirm"
    /\ dg_reply' = IF message_data = "none" THEN "no_data" ELSE "sending"
    /\ ad_users' = << >>
    /\ ad_i' = 0
    /\ success_count' = 0
    /\ error_count' = 0
    /\ ad_outcomes' = EmptyBag
    /\ ad_paced' = EmptyBag
    /\ ad_report' = << >>
    /\ UNCHANGED <<fsm_state, message_data>>
    /\ UNCHANGED dialogFixed
    /\ UNCHANGED notAdmin

\* An earlier call of confirm_send_callback: safe_edit_message("⏳ ...") is
\* over and callback.answer() has returned, or raised, which ends the call;
\* users = await get_all_registered_users(); if not users:
\* callback.message.answer("❌ Нет ..."), in which the call is suspended; else
\* the loop begins.
EarlierBegin ==
    \E f \in BagToSet(dg_calls) :
        /\ f.pc = "confirm"
        /\ \E raised, available \in BOOLEAN :
              LET us == GetAllRegisteredUsers(available)
                  g == IF us = << >> THEN [f EXCEPT !.pc = "no_users"]
                       ELSE [f EXCEPT !.pc = "sending", !.users = us]
              IN  /\ dg_calls' = IF raised THEN dg_calls (-) SetToBag({f})
                                 ELSE (dg_calls (-) SetToBag({f}))
                                          (+) SetToBag({g})
                  /\ dg_reply' = IF ~raised /\ us = << >> THEN "no_users"
                                 ELSE dg_reply
        /\ UNCHANGED <<followedVars, fsm_state, message_data>>
        /\ UNCHANGED dialogFixed
        /\ UNCHANGED notAdmin

\* An earlier call of confirm_send_callback: one iteration of `for user_id in
\* users`; the send goes through or raises, and the loop goes on either way.
EarlierSend ==
    \E f \in BagToSet(dg_calls) :
        /\ f.pc = "sending"
        /\ f.i < Len(f.users)
        /\ dg_calls' = (dg_calls (-) SetToBag({f}))
                          (+) SetToBag({[f EXCEPT !.i = @ + 1]})
        /\ UNCHANGED <<followedVars, fsm_state, message_data, dg_reply>>
        /\ UNCHANGED dialogFixed
        /\ UNCHANGED notAdmin

\* An earlier call of confirm_send_callback: its loop is over, result_text,
\* safe_edit_message(result_text), in which the call is suspended.
EarlierReport ==
    \E f \in BagToSet(dg_calls) :
        /\ f.pc = "sending"
        /\ f.i = Len(f.users)
        /\ dg_calls' = (dg_calls (-) SetToBag({f}))
                          (+) SetToBag({[f EXCEPT !.pc = "report"]})
        /\ UNCHANGED <<followedVars, fsm_state, message_data, dg_reply>>
        /\ UNCHANGED dialogFixed
        /\ UNCHANGED notAdmin

\* An earlier call of confirm_send_callback: safe_edit_message(result_text)
\* is over; callback.message.answer("Рассылка завершена"), in which the call
\* is suspended.
EarlierAnswer ==
    \E f \in BagToSet(dg_calls) :
        /\ f.pc = "report"
        /\ dg_calls' = (dg_calls (-) SetToBag({f}))
                          (+) SetToBag({[f EXCEPT !.pc = "answer"]})
        /\ dg_reply' = "finished"
        /\ UNCHANGED <<followedVars, fsm_state, message_data>>
        /\ UNCHANGED dialogFixed
        /\ UNCHANGED notAdmin

\* An earlier call of confirm_send_callback: its last answer, "Ошибка: ...",
\* "❌ Нет ..." or "Рассылка завершена", has returned or raised; state.clear()
\* if it returned; the call ends.
EarlierReturn ==
    \E f \in BagToSet(dg_calls) :
        /\ f.pc \in {"no_data", "no_users", "answer"}
        /\ dg_calls' = dg_calls (-) SetToBag({f})
        /\ \E raised \in BOOLEAN :
              /\ fsm_state' = IF raised THEN fsm_state ELSE "None"
              /\ message_data' = IF raised THEN message_data ELSE "none"
        /\ UNCHANGED <<followedVars, dg_reply>>
        /\ UNCHANGED dialogFixed
        /\ UNCHANGED notAdmin

\* Any user starts talking to the bot, with nobody or user 1 configured as
\* administrator, and with nobody or users 1 and 2 registered.
InitDialog ==
    /\ db_subscribed \in {{}, {1, 2}}
    /\ admin_ids \in {{}, {1}}
    /\ dg_user \in UserIds
    /\ fsm_state = "None"
    /\ dg_reply = "none"
    /\ ad_pc = "idle"
    /\ message_data = "none"
    /\ ad_users = << >>
    /\ ad_i = 0
    /\ success_count = 0
    /\ error_count = 0
    /\ ad_outcomes = EmptyBag
    /\ ad_paced = EmptyBag
    /\ ad_report = << >>
    /\ ad_data = "none"
    /\ dg_calls = EmptyBag
    /\ SendIdle
    /\ SubIdle
    /\ SchedRunIdle
    /\ RaffleIdle
    /\ LoopIdle
    /\ RegIdle

NextDialog ==
    \/ CmdStats
    \/ CmdSend
    \/ CmdSendSetState
    \/ CancelSend
    \/ ProcessMessageToSend
    \/ ProcessMessageSetState
    \/ CancelSendCallback
    \/ CancelSendAlert
    \/ CancelSendAnswer
    \/ ConfirmSendCallback
    \/ ConfirmSendNoData
    \/ ConfirmSendBegin
    \/ ConfirmSendNoUsers
    \/ AdminSendOk
    \/ AdminSendError
    \/ AdminReport
    \/ ConfirmSendAnswer
    \/ ConfirmSendFinish
    \/ EarlierBegin
    \/ EarlierSend
    \/ EarlierReport
    \/ EarlierAnswer
    \/ EarlierReturn

\* The /send dialog of one user, from the command to the broadcasts: each
\* update is handled in a task of its own, so the handlers of one user run
\* interleaved at their awaits.
SpecDialog == InitDialog /\ [][NextDialog]_vars

\* ------------------------------------------- claims on the administrator broadcast

\* How many of the recipients' sends went through.
OkSends == CopiesIn("ok", ad_outcomes)

\* C10: after the loop over N recipients, success_count + error_count = N,
\* success_count is the number of sends that went through, and when all of
\* them did, success_count = N and error_count = 0.
C10_BroadcastCounts ==
    ad_pc \in {"report", "answer", "done"} =>
        /\ BagCardinality(ad_outcomes) = Len(ad_users)
        /\ success_count + error_count = Len(ad_users)
        /\ success_count = OkSends
        /\ (\A o \in BagToSet(ad_outcomes) : o = "ok") =>
              (success_count = Len(ad_users) /\ error_count = 0)
        /\ ad_pc \in {"report", "answer"} =>
              ad_report = <<[success |-> OkSends,
                             error |-> Len(ad_users) - OkSends,
                             total |-> Len(ad_users)]>>

C10_Witness ==
    /\ ad_pc = "report"
    /\ Len(ad_users) = MaxUsers
    /\ success_count >= 1
    /\ error_count >= 1

\* C20 (as stated, for the administrator broadcast): the pacing delay follows
\* the send to every recipient handled, whether the send went through or
\* raised.
C20_PacedWhateverTheOutcome ==
    /\ BagCardinality(ad_paced) = BagCardinality(ad_outcomes)
    /\ \A paced \in BagToSet(ad_paced) : paced

\* How many recipients of the broadcast had their one transport call
\* answered with a network error or a rate limit.
TransientAnswers ==
    CopiesIn("network", ad_outcomes) + CopiesIn("retry_after", ad_outcomes)

\* C21 (as stated, for the administrator broadcast): a recipient is counted
\* as an error only after the retries of the send primitive, so no recipient
\* is counted on the strength of one transport call that met a network error
\* or a rate limit: the errors counted are at most the recipients whose call
\* was refused for good.
C21_TransientRetriedBeforeError ==
    error_count <= BagCardinality(ad_outcomes) - OkSends - TransientAnswers

\* The call of the broadcast handler entered last has not returned.
HandlerRunning ==
    ad_pc \in {"no_data", "confirm", "no_users", "sending", "report", "answer"}

\* How many suspended calls are at the position pc of a handler other than
\* the broadcast handler.
SuspendedIn(pc) == CopiesIn([pc |-> pc, users |-> << >>, i |-> 0], dg_calls)

\* How many calls of the broadcast handler are running.
InFlight ==
    (IF HandlerRunning THEN 1 ELSE 0)
        + BagCardinality(dg_calls) - SuspendedIn("prompt")
        - SuspendedIn("preview") - SuspendedIn("cancel_edit")
        - SuspendedIn("cancel_alert")

\* A call of the broadcast handler is running, or the last one has sent to
\* somebody.
FanoutExecuted == InFlight > 0 \/ ad_outcomes # EmptyBag

\* A running call of the broadcast handler sends to its next recipient.
SendToRecipient == AdminSendOk \/ AdminSendError \/ EarlierSend

\* The answer to a cancel is the last thing the bot said and the state is
\* cleared.
Cancelled == dg_reply = "cancelled" /\ fsm_state = "None"

\* C28, the part that holds however the handlers interleave: a broadcast is
\* executed only for a user of ADMIN_IDS, and a user outside ADMIN_IDS
\* (everybody, when it is empty) is never in waiting_for_message or
\* confirm_send.
C28_AdminOnly ==
    /\ [](FanoutExecuted => dg_user \in admin_ids)
    /\ [](fsm_state # "None" => (admin_ids # {} /\ dg_user \in admin_ids))

\* C28, the order as the handler calls keep it: the state becomes
\* waiting_for_message only when a call of cmd_send that accepted /send goes
\* on after its prompt, confirm_send only when a call of
\* process_message_to_send that was entered in waiting_for_message and stored
\* a message goes on after its preview, and a call of the broadcast handler is
\* entered only in confirm_send and sends only if it found a message.
C28_CallsInOrder ==
    /\ [][(fsm_state' = "waiting_for_message"
              /\ fsm_state # "waiting_for_message")
             => SuspendedIn("prompt")' < SuspendedIn("prompt")]_vars
    /\ [][SuspendedIn("prompt")' > SuspendedIn("prompt")
             => (SendRefusal(dg_user) = "none" /\ dg_reply' = "prompt")]_vars
    /\ [][(fsm_state' = "confirm_send" /\ fsm_state # "confirm_send")
             => SuspendedIn("preview")' < SuspendedIn("preview")]_vars
    /\ [][SuspendedIn("preview")' > SuspendedIn("preview")
             => (/\ fsm_state = "waiting_for_message"
                 /\ message_data' # "none"
                 /\ dg_reply' = "preview")]_vars
    /\ [][InFlight' > InFlight => fsm_state = "confirm_send"]_vars
    /\ [](ad_pc \in {"sending", "report", "answer"} => ad_data # "none")
    /\ [](ad_outcomes # EmptyBag => ad_data # "none")

\* C28: a broadcast is executed only for a user of ADMIN_IDS and only by
\* handler calls in their order (C28_AdminOnly, C28_CallsInOrder).  A cancel
\* in either state clears state and message and is itself no send, and leaves
\* every suspended call as it is.  With the state cleared and no call
\* suspended, nothing is sent to users and neither a message nor the confirm
\* button is accepted.  A call suspended at the cancel goes on: a broadcast
\* in flight sends to its next recipient, and a call of
\* process_message_to_send suspended in its preview sets confirm_send.
C28_AdminOnlyInOrderCancelNotStopping ==
    /\ C28_AdminOnly
    /\ C28_CallsInOrder
    /\ [][(CancelSend \/ CancelSendCallback)
             => (/\ fsm_state # "None"
                 /\ fsm_state' = "None"
                 /\ message_data' = "none"
                 /\ dg_reply' = "cancelled"
                 /\ ~SendToRecipient
                 /\ InFlight' = InFlight
                 /\ UNCHANGED <<ad_pc, ad_users, ad_i, ad_outcomes>>)]_vars
    /\ []((fsm_state = "None" /\ Suspended = 0)
             => (/\ ~ENABLED SendToRecipient
                 /\ ~ENABLED ProcessMessageToSend
                 /\ ~ENABLED ConfirmSendCallback))
    /\ []((Cancelled /\ ad_pc = "sending" /\ ad_i < Len(ad_users))
             => ENABLED AdminSendOk)
    /\ []((Cancelled /\ SuspendedIn("preview") > 0)
             => ENABLED (ProcessMessageSetState
                             /\ fsm_state' = "confirm_send"))

\* C28 (as stated): a broadcast is executed only for a user of ADMIN_IDS; the
\* state is waiting_for_message only after an accepted /send, confirm_send
\* only after waiting_for_message with a message supplied; and after a cancel
\* in either state the state is clear and no message is sent to users.
C28_AdminOnlyInOrder ==
    /\ C28_AdminOnly
    /\ [][(fsm_state' = "confirm_send" /\ fsm_state # "confirm_send")
             => (fsm_state = "waiting_for_message"
                    /\ message_data' # "none")]_vars
    /\ [][InFlight' > InFlight => fsm_state = "confirm_send"]_vars
    /\ [][Cancelled => (~SendToRecipient /\ fsm_state' = "None")]_vars

\* An administrator, not the only user, has gone through the dialog and
\* pressed "confirm" and then "cancel": the cancel is acknowledged and the
\* state cleared while the broadcast has sent to one recipient and has
\* another one left.
C28_Witness ==
    /\ Cancelled
    /\ ad_pc = "sending"
    /\ ad_i >= 1
    /\ ad_i < Len(ad_users)
    /\ dg_user \in admin_ids
    /\ admin_ids # UserIds

\* =========================================================================
\* conduct_raffle and the stores it uses
\* =========================================================================

RaffleUserIds == 1..MaxRaffleUsers

\* The values of the column username: NULL, the empty string, a handle.
UsernameValues == {"None", "", "nick"}

\* get_eligible_raffle_participants: SELECT user_id, username, first_name FROM
\* users WHERE subscribed = 1 AND username IS NOT NULL AND username != ''
\* (rows in user_id order); `except Exception: ...; return []` when the store
\* cannot be read.
GetEligibleRaffleParticipants(available) ==
    LET ids == Ascending({u \in DOMAIN db_username :
                             /\ u \in db_subscribed
                             /\ db_username[u] # "None"
                             /\ db_username[u] # ""})
    IN  IF available
        THEN [i \in 1..Len(ids) |->
                 [user_id |-> ids[i], username |-> db_username[ids[i]]]]
        ELSE << >>

UpdateUserSubscriptionStatus_OnlySet(user_id, flag, available) ==
    IF available /\ flag = "true" THEN db_subscribed \cup {user_id}
    ELSE db_subscribed

\* update_user_subscription_status: UPDATE users SET subscribed = ? WHERE
\* user_id = ?, committed; `except Exception` logs the error and the function
\* returns with the table as it was.  The value is the table's flags after
\* the call.
UpdateUserSubscriptionStatus(user_id, flag, available) ==
    IF ~available THEN db_subscribed
    ELSE IF flag = "true" THEN db_subscribed \cup {user_id}
    ELSE db_subscribed \ {user_id}

\* What check_subscription returns for a candidate.
CheckResults == {"true", "false"}

EligibleEmpty_Never(e) == FALSE

\* if len(eligible_participants) == 0: return
EligibleEmpty(e) == Len(e) = 0

\* num_winners = min(len(eligible_participants), 3)
NumWinners(n) == IF n < 3 THEN n ELSE 3

Sample_WithReplacement(population, k) ==
    {[i \in 1..k |-> population[q[i]]] : q \in [1..k -> 1..Len(population)]}

\* random.sample(population, k): k elements at distinct positions, in any
\* order.
Sample(population, k) ==
    {[i \in 1..k |-> population[q[i]]] :
        q \in {f \in [1..k -> 1..Len(population)] :
                  \A a \in 1..k : \A b \in 1..k : a # b => f[a] # f[b]}}

Shuffle_Kept(list) == {list}

\* winners = eligible_participants.copy(); random.shuffle(winners): the same
\* elements in any order.
Shuffle(list) ==
    {[i \in 1..Len(list) |-> list[q[i]]] :
        q \in {f \in [1..Len(list) -> 1..Len(list)] :
                  \A a \in 1..Len(list) : \A b \in 1..Len(list) :
                      a # b => f[a] # f[b]}}

\* if len(eligible_participants) > 3: random.sample(..., 3) else: shuffle
Winners(eligible) ==
    IF Len(eligible) > 3 THEN Sample(eligible, 3) ELSE Shuffle(eligible)

\* prizes = [{"place": 1, "amount": "10 000 ₽"}, ...]
Prizes ==
    << [place |-> 1, amount |-> "10 000 ₽"],
       [place |-> 2, amount |-> "5 000 ₽"],
       [place |-> 3, amount |-> "3 000 ₽"] >>

\* for i in range(num_winners): winners_data.append({...})
WinnersData(winners, n) ==
    [i \in 1..n |->
        [prize_place |-> Prizes[i].place,
         prize_amount |-> Prizes[i].amount,
         user_id |-> winners[i].user_id,
         username |-> winners[i].username]]

\* INSERT INTO raffle_winners (prize_place, prize_amount, user_id, username,
\* first_name): raffle_date takes its default, CURRENT_TIMESTAMP.
InsertedRow(w) ==
    [raffle_date |-> clock,
     prize_place |-> w.prize_place,
     prize_amount |-> w.prize_amount,
     user_id |-> w.user_id,
     username |-> w.username]

CommitPoint_EachRow(inserted, n) == TRUE

\* await db.commit() comes after the loop over the winners: when all n rows
\* are inserted.
CommitPoint(inserted, n) == inserted = n

CommitRows_Replace(table, txn) == txn

\* What commit does to the table: the inserted rows follow those it had.
CommitRows(table, txn) == table \o txn

\* ORDER BY raffle_date DESC, prize_place ASC: row a is placed before row b.
SortsBefore(a, b) ==
    \/ a.raffle_date > b.raffle_date
    \/ a.raffle_date = b.raffle_date /\ a.prize_place < b.prize_place

\* get_latest_raffle_winners: SELECT prize_place, prize_amount, user_id,
\* username, first_name FROM raffle_winners ORDER BY raffle_date DESC,
\* prize_place ASC LIMIT 3.  The lists the query can return: rows that tie in
\* both sort keys come in an order SQL leaves open.  `except Exception: ...;
\* return []` when the store cannot be read.
GetLatestRaffleWinners(table, available) ==
    LET n == Len(table)
        k == IF n < 3 THEN n ELSE 3
        tops == {q \in [1..k -> 1..n] :
                    /\ \A a \in 1..k : \A b \in 1..k : a # b => q[a] # q[b]
                    /\ \A a \in 1..k : \A b \in 1..k :
                          a < b => ~SortsBefore(table[q[b]], table[q[a]])
                    /\ \A a \in 1..k : \A r \in 1..n :
                          (\A b \in 1..k : q[b] # r) =>
                              ~SortsBefore(table[r], table[q[a]])}
    IN  IF available
        THEN {[i \in 1..k |->
                 [prize_place |-> table[q[i]].prize_place,
                  prize_amount |-> table[q[i]].prize_amount,
                  user_id |-> table[q[i]].user_id,
                  username |-> table[q[i]].username]] : q \in tops}
        ELSE {<< >>}

AnnouncementRecipients_Participants(available) ==
    IF available THEN [i \in 1..Len(participants) |-> participants[i].user_id]
    ELSE << >>

\* users = await get_all_registered_users(): the registered users, or [] when
\* the store cannot be read.
AnnouncementRecipients(available) == GetAllRegisteredUsers(available)

\* The first statements of conduct_raffle: participants = await
\* get_eligible_raffle_participants(); if not participants: return
RaffleEntry ==
    /\ rf_no' = rf_no + 1
    /\ \E available \in BOOLEAN :
          /\ participants' = GetEligibleRaffleParticipants(available)
          /\ rf_failed' = IF available THEN {}
                          ELSE {"get_eligible_raffle_participants"}
    /\ IF participants' = << >>
       THEN rf_pc' = "done" /\ rf_outcome' = "no_participants"
       ELSE rf_pc' = "recheck" /\ rf_outcome' = "running"
    /\ rf_i' = 1
    /\ is_subscribed' = "none"
    /\ rf_checks' = << >>
    /\ eligible_participants' = << >>
    /\ winners_data' = << >>
    /\ rf_txn' = << >>
    /\ rf_base' = Len(db_winners)
    /\ rf_inserts' = 0
    /\ rf_users' = << >>
    /\ rf_j' = 0
    /\ rf_sends' = << >>
    /\ UNCHANGED <<db_subscribed, db_username, db_winners>>
    /\ UNCHANGED notRaffle

\* conduct_raffle is invoked.
RaffleBegin ==
    /\ rf_pc = "start"
    /\ RaffleEntry

\* conduct_raffle is invoked once more, after an invocation that has returned.
RaffleBeginAgain ==
    /\ rf_pc = "done"
    /\ rf_no < MaxRaffles
    /\ RaffleEntry

\* for participant in participants: if not username: continue;
\* is_subscribed = await check_subscription(bot, user_id)
RaffleCheck ==
    /\ rf_pc = "recheck"
    /\ rf_i <= Len(participants)
    /\ IF ~Truthy(participants[rf_i].username)
       THEN /\ rf_i' = rf_i + 1
            /\ UNCHANGED <<rf_pc, is_subscribed, rf_checks>>
       ELSE /\ \E r \in CheckResults :
                  /\ is_subscribed' = r
                  /\ rf_checks' = Append(rf_checks,
                        [user_id |-> participants[rf_i].user_id, result |-> r])
            /\ rf_pc' = "update"
            /\ UNCHANGED rf_i
    /\ UNCHANGED <<db_subscribed, db_username, db_winners, rf_no, participants,
                   eligible_participants, winners_data, rf_txn, rf_base,
                   rf_inserts, rf_users, rf_j, rf_sends, rf_outcome>>
    /\ UNCHANGED rf_failed
    /\ UNCHANGED notRaffle

\* await update_user_subscription_status(user_id, is_subscribed);
\* if is_subscribed: eligible_participants.append(participant)
RaffleUpdate ==
    /\ rf_pc = "update"
    /\ \E available \in BOOLEAN :
          db_subscribed' =
              UpdateUserSubscriptionStatus(participants[rf_i].user_id,
                                           is_subscribed, available)
    /\ eligible_participants' =
          IF is_subscribed = "true"
          THEN Append(eligible_participants, participants[rf_i])
          ELSE eligible_participants
    /\ rf_i' = rf_i + 1
    /\ is_subscribed' = "none"
    /\ rf_pc' = "recheck"
    /\ UNCHANGED <<db_username, db_winners, rf_no, participants, rf_checks,
                   winners_data, rf_txn, rf_base, rf_inserts, rf_users, rf_j, rf_sends,
                   rf_outcome>>
    /\ UNCHANGED rf_failed
    /\ UNCHANGED notRaffle

\* The re-check loop is over.
RecheckDone == rf_pc = "recheck" /\ rf_i > Len(participants)

\* if len(eligible_participants) == 0: return
RaffleNoneEligible ==
    /\ RecheckDone
    /\ EligibleEmpty(eligible_participants)
    /\ rf_pc' = "done"
    /\ rf_outcome' = "no_eligible"
    /\ UNCHANGED <<db_subscribed, db_username, db_winners, rf_no, participants,
                   rf_i, is_subscribed, rf_checks, eligible_participants,
                   winners_data, rf_txn, rf_base, rf_inserts, rf_users, rf_j, rf_sends>>
    /\ UNCHANGED rf_failed
    /\ UNCHANGED notRaffle

\* The draw, and winners_data built from it.
RaffleDraw ==
    /\ RecheckDone
    /\ ~EligibleEmpty(eligible_participants)
    /\ \E winners \in Winners(eligible_participants) :
          winners_data' =
              WinnersData(winners, NumWinners(Len(eligible_participants)))
    /\ rf_pc' = "save"
    /\ UNCHANGED <<db_subscribed, db_username, db_winners, rf_no, participants,
                   rf_i, is_subscribed, rf_checks, eligible_participants,
                   rf_txn, rf_base, rf_inserts, rf_users, rf_j, rf_sends, rf_outcome>>
    /\ UNCHANGED rf_failed
    /\ UNCHANGED notRaffle

\* save_raffle_winners: one `await db.execute("INSERT ...")` of the loop.
SaveInsert ==
    /\ rf_pc = "save"
    /\ rf_inserts < Len(winners_data)
    /\ rf_txn' = Append(rf_txn, InsertedRow(winners_data[rf_inserts + 1]))
    /\ rf_inserts' = rf_inserts + 1
    /\ UNCHANGED <<db_subscribed, db_username, db_winners, rf_pc, rf_no,
                   participants, rf_i, is_subscribed, rf_checks,
                   eligible_participants, winners_data, rf_base, rf_users,
                   rf_j, rf_sends, rf_outcome>>
    /\ UNCHANGED rf_failed
    /\ UNCHANGED notRaffle

\* A second of wall-clock time goes by while save_raffle_winners is about to
\* execute an INSERT (before the first one, or suspended in the `await` between
\* two).  The raffle reads the clock nowhere else, so time that passes
\* elsewhere shows as time that has passed here.
SecondPasses ==
    /\ rf_pc = "save"
    /\ rf_inserts < Len(winners_data)
    /\ clock < MaxRaffleSeconds
    /\ clock' = clock + 1
    /\ UNCHANGED <<raffleVars, dbVars, sendVars, subVars, schedNoClock,
                   adminVars, loopVars, regVars>>

\* save_raffle_winners: await db.commit(), and the function returns.
SaveCommit ==
    /\ rf_pc = "save"
    /\ CommitPoint(rf_inserts, Len(winners_data))
    /\ db_winners' = CommitRows(db_winners, rf_txn)
    /\ rf_txn' = << >>
    /\ rf_pc' = IF rf_inserts = Len(winners_data) THEN "announce" ELSE "save"
    /\ UNCHANGED <<db_subscribed, db_username, rf_no, participants, rf_i,
                   is_subscribed, rf_checks, eligible_participants,
                   winners_data, rf_base, rf_inserts, rf_users, rf_j, rf_sends, rf_outcome>>
    /\ UNCHANGED rf_failed
    /\ UNCHANGED notRaffle

AfterSaveError_Swallowed == "announce"

\* save_raffle_winners' `except Exception: ...; raise`: the exception reaches
\* conduct_raffle's own `except Exception`, after which the function is over.
AfterSaveError == "done"

\* save_raffle_winners: connect, an INSERT or the commit raises.  The
\* connection closes with its inserts uncommitted, the exception is logged and
\* raised again, and conduct_raffle's `except Exception` logs it.
SaveFail ==
    /\ rf_pc = "save"
    /\ rf_txn' = << >>
    /\ rf_pc' = AfterSaveError
    /\ rf_outcome' = "save_failed"
    /\ UNCHANGED <<db_subscribed, db_username, db_winners, rf_no, participants,
                   rf_i, is_subscribed, rf_checks, eligible_participants,
                   winners_data, rf_base, rf_inserts, rf_users, rf_j, rf_sends>>
    /\ UNCHANGED rf_failed
    /\ UNCHANGED notRaffle

\* message = get_raffle_message(winners_data);
\* users = await get_all_registered_users()
RaffleAnnounceBegin ==
    /\ rf_pc = "announce"
    /\ \E available \in BOOLEAN :
          /\ rf_users' = AnnouncementRecipients(available)
          /\ rf_failed' = IF available THEN rf_failed
                          ELSE rf_failed \cup {"get_all_registered_users"}
    /\ rf_j' = 0
    /\ rf_pc' = "sending"
    /\ UNCHANGED <<db_subscribed, db_username, db_winners, rf_no, participants,
                   rf_i, is_subscribed, rf_checks, eligible_participants,
                   winners_data, rf_txn, rf_base, rf_inserts, rf_sends, rf_outcome>>
    /\ UNCHANGED notRaffle

\* for user_id in users: await safe_send_message(bot, user_id, message);
\* await asyncio.sleep(0.05)
RaffleSend ==
    /\ rf_pc = "sending"
    /\ rf_j < Len(rf_users)
    /\ \E r \in SendResults :
          rf_sends' = Append(rf_sends, [user |-> rf_users[rf_j + 1], result |-> r])
    /\ rf_j' = rf_j + 1
    /\ UNCHANGED <<db_subscribed, db_username, db_winners, rf_pc, rf_no,
                   participants, rf_i, is_subscribed, rf_checks,
                   eligible_participants, winners_data, rf_txn, rf_base,
                   rf_inserts, rf_users, rf_outcome>>
    /\ UNCHANGED rf_failed
    /\ UNCHANGED notRaffle

\* The announcement loop is over: conduct_raffle returns.
RaffleEnd ==
    /\ rf_pc = "sending"
    /\ rf_j = Len(rf_users)
    /\ rf_pc' = "done"
    /\ rf_outcome' = "completed"
    /\ UNCHANGED <<db_subscribed, db_username, db_winners, rf_no, participants,
                   rf_i, is_subscribed, rf_checks, eligible_participants,
                   winners_data, rf_txn, rf_base, rf_inserts, rf_users, rf_j, rf_sends>>
    /\ UNCHANGED rf_failed
    /\ UNCHANGED notRaffle

\* conduct_raffle is about to be invoked, with any set of registered users,
\* with or without usernames, and no raffle held before.
InitRaffle ==
    /\ db_subscribed \in SUBSET RaffleUserIds
    /\ db_username \in [RaffleUserIds -> UsernameValues]
    /\ db_winners = << >>
    /\ rf_pc = "start"
    /\ rf_no = 0
    /\ participants = << >>
    /\ rf_i = 0
    /\ is_subscribed = "none"
    /\ rf_checks = << >>
    /\ eligible_participants = << >>
    /\ winners_data = << >>
    /\ rf_txn = << >>
    /\ rf_base = 0
    /\ rf_inserts = 0
    /\ rf_users = << >>
    /\ rf_j = 0
    /\ rf_sends = << >>
    /\ rf_outcome = "none"
    /\ rf_failed = {}
    /\ clock = 0
    /\ sl_pc = "idle"
    /\ current_time = << >>
    /\ users = << >>
    /\ tk_pos = 0
    /\ tk_i = 0
    /\ tk_fanouts = << >>
    /\ tk_sends = << >>
    /\ fired = << >>
    /\ ticks = << >>
    /\ SendIdle
    /\ SubIdle
    /\ AdminIdle
    /\ LoopIdle
    /\ RegIdle

NextRaffle ==
    \/ RaffleBegin
    \/ RaffleCheck
    \/ RaffleUpdate
    \/ RaffleNoneEligible
    \/ RaffleDraw
    \/ SaveInsert
    \/ SaveCommit
    \/ SaveFail
    \/ RaffleAnnounceBegin
    \/ RaffleSend
    \/ RaffleEnd

\* One invocation of conduct_raffle, all within one second of the clock.
SpecRaffle == InitRaffle /\ [][NextRaffle]_vars

\* conduct_raffle is about to be invoked for the first time, the users table
\* having rows for the ids of UserIds.
InitRaffles ==
    /\ db_subscribed \in SUBSET UserIds
    /\ db_username \in [UserIds -> UsernameValues]
    /\ db_winners = << >>
    /\ rf_pc = "start"
    /\ rf_no = 0
    /\ participants = << >>
    /\ rf_i = 0
    /\ is_subscribed = "none"
    /\ rf_checks = << >>
    /\ eligible_participants = << >>
    /\ winners_data = << >>
    /\ rf_txn = << >>
    /\ rf_base = 0
    /\ rf_inserts = 0
    /\ rf_users = << >>
    /\ rf_j = 0
    /\ rf_sends = << >>
    /\ rf_outcome = "none"
    /\ rf_failed = {}
    /\ clock = 0
    /\ sl_pc = "idle"
    /\ current_time = << >>
    /\ users = << >>
    /\ tk_pos = 0
    /\ tk_i = 0
    /\ tk_fanouts = << >>
    /\ tk_sends = << >>
    /\ fired = << >>
    /\ ticks = << >>
    /\ SendIdle
    /\ SubIdle
    /\ AdminIdle
    /\ LoopIdle
    /\ RegIdle

NextRaffleSeries ==
    \/ NextRaffle
    \/ RaffleBeginAgain

\* Up to MaxRaffles invocations of conduct_raffle, one after the other, all
\* within one second of the clock.
SpecRaffleSeries == InitRaffles /\ [][NextRaffleSeries]_vars

NextRaffles ==
    \/ NextRaffle
    \/ RaffleBeginAgain
    \/ SecondPasses

\* Up to MaxRaffles invocations of conduct_raffle, one after the other, with
\* the wall clock moving.
SpecRaffles == InitRaffles /\ [][NextRaffles]_vars

\* ------------------------------------------------------- claims on the raffle

\* The users that passed the live re-check of this raffle.
Passed == {rf_checks[i].user_id :
              i \in {k \in 1..Len(rf_checks) : rf_checks[k].result = "true"}}

\* The raffle has got past its re-check loop and made its draw.
Drawn ==
    \/ rf_pc \in {"save", "announce", "sending"}
    \/ rf_pc = "done" /\ rf_outcome \in {"save_failed", "completed"}

\* The rows raffle_winners has gained since this raffle began.
AddedRows == SubSeq(db_winners, rf_base + 1, Len(db_winners))

WinnerIds == {winners_data[i].user_id : i \in 1..Len(winners_data)}

\* C13: a raffle in which no candidate passes the re-check (there may be no
\* candidate at all) never gets to the draw, and when it has returned the
\* winner store is as it was and no message has been sent.
C13_NoEligibleNoRaffle ==
    /\ Drawn => Passed # {}
    /\ (rf_pc = "done" /\ Passed = {}) =>
          /\ Len(db_winners) = rf_base
          /\ rf_inserts = 0
          /\ rf_sends = << >>

\* Candidates were re-checked, all failed, and registered users remain that
\* an announcement would have reached.
C13_Witness ==
    /\ rf_pc = "done"
    /\ Len(rf_checks) >= 2
    /\ Passed = {}
    /\ db_subscribed # {}

\* The amount the claim gives each place.
AmountOfPlace(place) ==
    CASE place = 1 -> "10 000 ₽"
      [] place = 2 -> "5 000 ₽"
      [] place = 3 -> "3 000 ₽"

\* The ways of putting the set S in an order.
Orders(S) ==
    {f \in [1..Cardinality(S) -> S] :
        \A a \in 1..Cardinality(S) : \A b \in 1..Cardinality(S) :
            a # b => f[a] # f[b]}

\* C14: with n eligible participants, 1 <= n <= 3, the draw gives exactly n
\* winners, their ids are the n eligible ones, the places are 1..n with the
\* amount of each place; and before the draw every order of the eligible
\* participants is one the draw can give.
C14_FewEligibleAllWin ==
    /\ (Drawn /\ Cardinality(Passed) \in 1..3) =>
          /\ Len(winners_data) = Cardinality(Passed)
          /\ WinnerIds = Passed
          /\ \A i \in 1..Len(winners_data) :
                /\ winners_data[i].prize_place = i
                /\ winners_data[i].prize_amount = AmountOfPlace(i)
    /\ (RecheckDone /\ Cardinality(Passed) \in 1..3) =>
          \A f \in Orders(Passed) :
              ENABLED (/\ RaffleDraw
                       /\ \A i \in 1..Cardinality(Passed) :
                             winners_data'[i].user_id = f[i])

\* Three eligible participants, and the draw put them in the reverse of the
\* order the store listed them in.
C14_Witness ==
    /\ Drawn
    /\ Cardinality(Passed) = 3
    /\ Len(winners_data) = 3
    /\ winners_data[1].user_id > winners_data[2].user_id
    /\ winners_data[2].user_id > winners_data[3].user_id

\* C15: with more than 3 eligible participants the draw gives exactly 3
\* winners at the places 1, 2, 3, each of them passed the re-check of this
\* raffle and has a non-empty username, and no user id is at two places.
C15_ThreeDistinctWinners ==
    (Drawn /\ Cardinality(Passed) > 3) =>
        /\ Len(winners_data) = 3
        /\ \A i \in 1..3 :
              /\ winners_data[i].prize_place = i
              /\ winners_data[i].user_id \in Passed
              /\ db_username[winners_data[i].user_id] \notin {"None", ""}
              /\ winners_data[i].username = db_username[winners_data[i].user_id]
        /\ \A i \in 1..3 : \A j \in 1..3 :
              i # j => winners_data[i].user_id # winners_data[j].user_id

\* Four passed the re-check, and the one the store lists first is not among
\* the winners.
C15_Witness ==
    /\ rf_pc = "done"
    /\ rf_outcome = "completed"
    /\ Cardinality(Passed) = 4
    /\ rf_checks[1].user_id \notin WinnerIds

\* C16: the winners of a raffle are persisted as one batch.  From the draw
\* on, whether save_raffle_winners is running, has returned or has failed,
\* the winner store has gained none of the raffle's rows or all of them: none
\* when the save failed, all of them, as handed over, when it returned.
C16_AtomicBatch ==
    Drawn =>
        /\ Len(db_winners) >= rf_base
        /\ Len(AddedRows) \in {0, Len(winners_data)}
        /\ rf_outcome = "save_failed" => Len(AddedRows) = 0
        /\ (rf_pc \in {"announce", "sending"} \/ rf_outcome = "completed") =>
              /\ Len(AddedRows) = Len(winners_data)
              /\ \A i \in 1..Len(winners_data) :
                    /\ AddedRows[i].user_id = winners_data[i].user_id
                    /\ AddedRows[i].prize_place = winners_data[i].prize_place
                    /\ AddedRows[i].prize_amount = winners_data[i].prize_amount
                    /\ AddedRows[i].username = winners_data[i].username

\* The save of three winners failed after two rows were inserted.
C16_Witness ==
    /\ rf_pc = "done"
    /\ rf_outcome = "save_failed"
    /\ Len(winners_data) = 3
    /\ rf_inserts = 2
    /\ Len(db_winners) = rf_base

\* The users the announcement was sent to.
Announced == {rf_sends[i].user : i \in 1..Len(rf_sends)}

\* C17 (as stated): the announcement of a raffle goes once to every registered
\* user, participant of the raffle or not, and to nobody else.  (The flags do
\* not change between the start of the fan-out and its end.)
C17_AnnouncedToAllRegistered ==
    /\ rf_pc = "sending" => rf_users = Ascending(db_subscribed)
    /\ (rf_pc = "done" /\ rf_outcome = "completed") =>
          /\ Announced = db_subscribed
          /\ Len(rf_sends) = Cardinality(db_subscribed)

\* The read of the registered users failed for this raffle's announcement.
AnnouncementReadFailed == "get_all_registered_users" \in rf_failed

\* C17: when the store can be read as the fan-out starts, the announcement of
\* a raffle goes once to every registered user, participant of the raffle or
\* not, and to nobody else; when the read fails the list is empty, nobody is
\* sent the announcement, and the raffle ends as completed all the same.
C17_AnnouncedToAllReadRegistered ==
    /\ rf_pc = "sending" =>
          rf_users = IF AnnouncementReadFailed THEN << >>
                     ELSE Ascending(db_subscribed)
    /\ (rf_pc = "done" /\ rf_outcome = "completed") =>
          IF AnnouncementReadFailed
          THEN rf_sends = << >>
          ELSE /\ Announced = db_subscribed
               /\ Len(rf_sends) = Cardinality(db_subscribed)
    /\ rf_pc = "announce" =>
          /\ ENABLED (RaffleAnnounceBegin /\ rf_users' = Ascending(db_subscribed))
          /\ ENABLED (RaffleAnnounceBegin /\ rf_users' = << >>)

\* A raffle with three winners is over whose announcement reached a
\* registered user without a username, who could not take part.
C17_Witness ==
    /\ rf_pc = "done"
    /\ rf_outcome = "completed"
    /\ Len(winners_data) = 3
    /\ \E u \in Announced : db_username[u] \in {"None", ""} /\ u \notin WinnerIds

\* C18: the winner store only grows.  No step changes or removes a stored
\* row; a raffle is begun whatever the store holds; and each invocation that
\* completes with a non-empty eligible set has added its batch of winners
\* after the rows the store had.
C18_AppendOnly ==
    /\ [][/\ Len(db_winners') >= Len(db_winners)
          /\ SubSeq(db_winners', 1, Len(db_winners)) = db_winners]_vars
    /\ []((rf_pc = "done" /\ rf_no < MaxRaffles) => ENABLED RaffleBeginAgain)
    /\ []((rf_pc = "done" /\ rf_outcome = "completed") =>
              /\ Passed # {}
              /\ Len(db_winners) = rf_base + NumWinners(Cardinality(Passed))
              /\ \A i \in 1..Len(AddedRows) :
                    AddedRows[i].user_id = winners_data[i].user_id)

\* A second raffle has completed: the store holds the batch of the first and,
\* after it, the batch of the second, and one user won in both.
C18_Witness ==
    /\ rf_no = 2
    /\ rf_pc = "done"
    /\ rf_outcome = "completed"
    /\ rf_base >= 1
    /\ Len(db_winners) > rf_base
    /\ \E i \in 1..rf_base : db_winners[i].user_id \in WinnerIds

\* The re-checks of this raffle whose update call has been made (of the last
\* one, the call may still be to come).
WrittenChecks ==
    {k \in 1..Len(rf_checks) : k < Len(rf_checks) \/ rf_pc # "update"}

EligibleIds ==
    {eligible_participants[i].user_id : i \in 1..Len(eligible_participants)}

\* The table's flags once the store has taken the write of the re-check
\* result of the candidate at rf_i.
ResultWritten ==
    IF is_subscribed = "true"
    THEN db_subscribed \cup {participants[rf_i].user_id}
    ELSE db_subscribed \ {participants[rf_i].user_id}

\* C22: for every re-checked candidate the raffle writes the result of the
\* re-check to the candidate's flag when the store takes the write, and
\* leaves the flag as it was when the store fails (nothing else can come of
\* the call); a candidate that passed is flagged either way; a candidate is
\* eligible exactly if it passed; every candidate with a username is
\* re-checked once the loop is over; and all of this also in a raffle that
\* returns because nobody is eligible.
C22_RecheckWrittenUnlessStoreFails ==
    /\ rf_pc = "update" =>
          /\ ENABLED (RaffleUpdate /\ db_subscribed' = ResultWritten)
          /\ ENABLED (RaffleUpdate /\ db_subscribed' = db_subscribed)
          /\ ~ENABLED (/\ RaffleUpdate
                       /\ db_subscribed' # ResultWritten
                       /\ db_subscribed' # db_subscribed)
    /\ \A k \in WrittenChecks :
          /\ (rf_checks[k].result = "true") => (rf_checks[k].user_id \in db_subscribed)
          /\ (rf_checks[k].user_id \in EligibleIds) <=> (rf_checks[k].result = "true")
    /\ (rf_pc \notin {"start", "recheck", "update"} /\ rf_outcome # "no_participants") =>
          \A i \in 1..Len(participants) :
              Truthy(participants[i].username) =>
                  \E k \in WrittenChecks :
                      rf_checks[k].user_id = participants[i].user_id

\* C22 (as stated): the subscribed flag of every re-checked candidate is the
\* result of its re-check, a candidate that failed is not eligible, every
\* candidate with a username is re-checked once the loop is over, and all of
\* this also in a raffle that returns because nobody is eligible.
C22_RecheckWritten ==
    /\ \A k \in WrittenChecks :
          /\ (rf_checks[k].user_id \in db_subscribed) <=> (rf_checks[k].result = "true")
          /\ (rf_checks[k].user_id \in EligibleIds) <=> (rf_checks[k].result = "true")
    /\ (rf_pc \notin {"start", "recheck", "update"} /\ rf_outcome # "no_participants") =>
          \A i \in 1..Len(participants) :
              Truthy(participants[i].username) =>
                  \E k \in WrittenChecks :
                      rf_checks[k].user_id = participants[i].user_id

\* The raffle returned because nobody was eligible, having cleared the flags
\* of the candidates it re-checked.
C22_Witness ==
    /\ rf_pc = "done"
    /\ rf_outcome = "no_eligible"
    /\ Len(rf_checks) >= 2
    /\ \A k \in 1..Len(rf_checks) : rf_checks[k].user_id \notin db_subscribed

\* The winners this raffle drew are rows of raffle_winners, in their places.
WinnersStored ==
    /\ Len(AddedRows) = Len(winners_data)
    /\ winners_data # << >>
    /\ \A i \in 1..Len(winners_data) :
          /\ AddedRows[i].user_id = winners_data[i].user_id
          /\ AddedRows[i].prize_place = winners_data[i].prize_place
          /\ AddedRows[i].prize_amount = winners_data[i].prize_amount

\* C24: as soon as the announcement has been sent to anybody, the winners it
\* names are committed rows of the store; a raffle whose save failed has sent
\* nothing and stored nothing; so store and announcement differ only by
\* winners that are stored and not, or not to everybody, announced.
C24_SavedBeforeAnnounced ==
    /\ (rf_sends # << >> \/ rf_pc \in {"announce", "sending"}) => WinnersStored
    /\ rf_outcome = "save_failed" => (rf_sends = << >> /\ AddedRows = << >>)
    /\ (rf_pc = "done" /\ rf_outcome # "completed") => rf_sends = << >>

\* Winners are stored and the announcement has reached one user and failed
\* for another.
C24_Witness ==
    /\ rf_pc = "done"
    /\ rf_outcome = "completed"
    /\ WinnersStored
    /\ \E i \in 1..Len(rf_sends) : rf_sends[i].result = "true"
    /\ \E i \in 1..Len(rf_sends) : rf_sends[i].result = "false"

\* C23 (as stated): the rows one raffle writes all carry the same raffle_date,
\* however much time passes between their inserts.
C23_OneDatePerRaffle ==
    /\ \A i \in 1..Len(rf_txn) : rf_txn[i].raffle_date = rf_txn[1].raffle_date
    /\ \A i \in 1..Len(AddedRows) :
          AddedRows[i].raffle_date = AddedRows[1].raffle_date

\* The latest raffle has stored its winners.
LatestStored ==
    \/ rf_pc \in {"announce", "sending"}
    \/ rf_pc = "done" /\ rf_outcome = "completed"

\* The rows of the latest raffle share one raffle_date, and it is later than
\* that of every row of an earlier raffle.
LatestDatedApart ==
    /\ \A i \in 1..Len(AddedRows) :
          AddedRows[i].raffle_date = AddedRows[1].raffle_date
    /\ \A i \in 1..rf_base : \A j \in (rf_base + 1)..Len(db_winners) :
          db_winners[i].raffle_date < db_winners[j].raffle_date

\* C29 (as stated): once a raffle has stored its winners, whatever raffles
\* were held before it, get_latest_raffle_winners returns its winners, all of
\* them and nobody else, by prize place ascending (here only for a latest
\* raffle whose rows share a date later than all earlier ones, and for a
\* store that can be read).
C29_LatestRaffleOnly ==
    (LatestStored /\ LatestDatedApart) =>
        GetLatestRaffleWinners(db_winners, TRUE) = {winners_data}

\* =========================================================================
\* cmd_start, process_participate, process_check_subscription
\* =========================================================================

\* add_user: SELECT the row; UPDATE its username, or INSERT a row (subscribed
\* takes its default, 0); commit.
AddUser(user_id, username) ==
    [u \in (DOMAIN db_username) \cup {user_id} |->
        IF u = user_id THEN username ELSE db_username[u]]

\* mark_subscribed: UPDATE users SET subscribed = 1 WHERE user_id = ?,
\* committed.  Where there is no row for the user the statement changes
\* nothing.
MarkSubscribed(user_id) ==
    IF user_id \in DOMAIN db_username
    THEN db_subscribed \cup {user_id}
    ELSE db_subscribed

\* The raffle has re-checked the user of the handler, found them not
\* subscribed, and is suspended before the write of that result.
StaleRecheck ==
    IF /\ rf_pc = "update"
       /\ participants[rf_i].user_id = rg_user
       /\ is_subscribed = "false"
    THEN "true" ELSE "false"

\* Which buttons the user has after the messages sent: the welcome message
\* carries "participate", the request to subscribe "check_subscription".
Buttons(sent) ==
    IF \E i \in 1..Len(sent) : sent[i] = "subscribe_first" THEN "asked"
    ELSE IF \E i \in 1..Len(sent) : sent[i] = "welcome" THEN "welcomed"
    ELSE "new"

\* cmd_start: message.from_user.username is None or the user's handle;
\* await add_user(...), whose store error is logged and swallowed;
\* then the welcome message with the button, whose send error is logged.
CmdStart ==
    /\ rg_pc = "new"
    /\ \E available \in BOOLEAN, username \in {"None", "nick"},
          delivered \in BOOLEAN :
          /\ db_username' = IF available THEN AddUser(rg_user, username)
                            ELSE db_username
          /\ rg_sent' = IF delivered THEN Append(rg_sent, "welcome") ELSE rg_sent
          /\ rg_pc' = IF delivered THEN "welcomed" ELSE "new"
    /\ UNCHANGED <<db_subscribed, rg_user, rg_handler, rg_result, rg_stale,
                   rg_marked>>
    /\ UNCHANGED notReg

\* The first await of a callback handler, `if await check_subscription(...)`.
HandlerCheck(handler) ==
    /\ \E r \in CheckResults :
          /\ rg_result' = r
          /\ rg_pc' = IF r = "true" THEN "mark" ELSE "refuse"
    /\ rg_handler' = handler
    /\ rg_stale' = StaleRecheck
    /\ rg_marked' = "none"
    /\ UNCHANGED <<db_subscribed, db_username, rg_user, rg_sent>>
    /\ UNCHANGED notReg

\* process_participate: the user presses "participate".
ProcessParticipate ==
    /\ rg_pc \in {"welcomed", "asked"}
    /\ Len(rg_sent) < MaxSent
    /\ HandlerCheck("participate")

\* process_check_subscription: the user presses "check_subscription".
ProcessCheckSubscription ==
    /\ rg_pc = "asked"
    /\ HandlerCheck("check_subscription")

\* await mark_subscribed(user_id), whose store error is logged and swallowed.
RegMark ==
    /\ rg_pc = "mark"
    /\ \E available \in BOOLEAN :
          /\ db_subscribed' = IF available THEN MarkSubscribed(rg_user)
                              ELSE db_subscribed
          /\ rg_marked' = IF available /\ rg_user \in DOMAIN db_username
                          THEN "true" ELSE "false"
    /\ rg_pc' = "answer"
    /\ UNCHANGED <<db_username, rg_user, rg_handler, rg_result, rg_stale,
                   rg_sent>>
    /\ UNCHANGED notReg

\* await callback.message.answer(MESSAGE_REGISTRATION, ...); when the send
\* raises, the handler's `except Exception` ends it.
RegAnswer ==
    /\ rg_pc = "answer"
    /\ \E delivered \in BOOLEAN :
          rg_sent' = IF delivered THEN Append(rg_sent, "registration")
                     ELSE rg_sent
    /\ rg_pc' = "done"
    /\ UNCHANGED <<db_subscribed, db_username, rg_user, rg_handler, rg_result,
                   rg_stale, rg_marked>>
    /\ UNCHANGED notReg

\* The else branch: process_participate sends the request to subscribe with
\* the button "check_subscription"; process_check_subscription only shows an
\* alert.
RegRefuse ==
    /\ rg_pc = "refuse"
    /\ \E delivered \in BOOLEAN :
          LET sent == IF rg_handler = "participate" /\ delivered
                      THEN Append(rg_sent, "subscribe_first") ELSE rg_sent
          IN  /\ rg_sent' = sent
              /\ rg_pc' = Buttons(sent)
    /\ UNCHANGED <<db_subscribed, db_username, rg_user, rg_handler, rg_result,
                   rg_stale, rg_marked>>
    /\ UNCHANGED notReg

\* A user sends /start; the table users has rows for any of the user ids, the
\* flag set in any of them.
InitRegister ==
    /\ \E R \in SUBSET UserIds : db_username \in [R -> UsernameValues]
    /\ db_subscribed \in SUBSET (DOMAIN db_username)
    /\ rg_user \in UserIds
    /\ rg_pc = "new"
    /\ rg_handler = "none"
    /\ rg_result = "none"
    /\ rg_stale = "none"
    /\ rg_marked = "none"
    /\ rg_sent = << >>
    /\ SendIdle
    /\ SubIdle
    /\ SchedRunIdle
    /\ AdminIdle
    /\ RaffleRunIdle
    /\ LoopIdle

NextRegister ==
    \/ CmdStart
    \/ ProcessParticipate
    \/ ProcessCheckSubscription
    \/ RegMark
    \/ RegAnswer
    \/ RegRefuse

\* One user's registration dialog.
SpecRegister == InitRegister /\ [][NextRegister]_vars

\* conduct_raffle is about to be invoked while a user who has the welcome
\* message presses its buttons.
InitRaffleReg ==
    /\ db_subscribed \in SUBSET UserIds
    /\ db_username \in [UserIds -> UsernameValues]
    /\ db_winners = << >>
    /\ rf_pc = "start"
    /\ rf_no = 0
    /\ participants = << >>
    /\ rf_i = 0
    /\ is_subscribed = "none"
    /\ rf_checks = << >>
    /\ eligible_participants = << >>
    /\ winners_data = << >>
    /\ rf_txn = << >>
    /\ rf_base = 0
    /\ rf_inserts = 0
    /\ rf_users = << >>
    /\ rf_j = 0
    /\ rf_sends = << >>
    /\ rf_outcome = "none"
    /\ rf_failed = {}
    /\ rg_user \in UserIds
    /\ rg_pc = "welcomed"
    /\ rg_handler = "none"
    /\ rg_result = "none"
    /\ rg_stale = "none"
    /\ rg_marked = "none"
    /\ rg_sent = <<"welcome">>
    /\ SendIdle
    /\ SubIdle
    /\ SchedRunIdle
    /\ AdminIdle
    /\ LoopIdle

NextRaffleReg ==
    \/ NextRaffle
    \/ ProcessParticipate
    \/ ProcessCheckSubscription
    \/ RegMark
    \/ RegAnswer
    \/ RegRefuse

\* A raffle and one user's callback handlers on the event loop: each runs
\* while the other is suspended in an await.
SpecRaffleReg == InitRaffleReg /\ [][NextRaffleReg]_vars

\* ------------------------------------------------ claims on the registration

\* C26 (as stated): once a handler has set the flag after a passing check,
\* made when a raffle re-check of the same user had already done its lookups
\* (and failed), the flag stays set: the raffle does not write its older
\* result over it.
C26_NoStaleOverwrite ==
    (/\ rg_result = "true"
     /\ rg_marked = "true"
     /\ rg_stale = "true")
        => rg_user \in db_subscribed

\* C27 (as stated): a user who has been sent the registration-success message
\* has a row in the store with subscribed = 1, whether or not add_user or
\* mark_subscribed met an unavailable store.
C27_RegisteredWhenTold ==
    (\E i \in 1..Len(rg_sent) : rg_sent[i] = "registration") =>
        /\ rg_user \in DOMAIN db_username
        /\ rg_user \in db_subscribed

\* =========================================================================
\* The fan-outs together
\* =========================================================================

\* One of the three programs that fan a message out is started: the
\* scheduler loop, the administrator broadcast, or a raffle.
InitFanouts ==
    \/ InitSched
    \/ InitAdmin
    \/ InitRaffle

NextFanouts ==
    \/ NextSched
    \/ NextAdmin
    \/ NextRaffle

SpecFanouts == InitFanouts /\ [][NextFanouts]_vars

\* The sends of the tick so far are, fan-out after fan-out, to the users of
\* the list in its order.
TickSendsInOrder ==
    /\ Len(tk_sends) <= Len(tk_fanouts) * Len(users)
    /\ \A j \in 1..Len(tk_sends) :
          /\ tk_sends[j].user = users[((j - 1) % Len(users)) + 1]
          /\ tk_sends[j].check = tk_fanouts[((j - 1) \div Len(users)) + 1].check

\* C11: a fan-out gives every recipient of its list a send, in the order of
\* the list, whatever the sends before returned or raised.  For the
\* reminders and the end of the marathon: a tick that has ended made, for
\* each of its fan-outs, one send to each user it read.  For the
\* administrator broadcast: when the report is made every recipient has an
\* outcome.  For the raffle: a completed raffle sent the announcement to the
\* whole list it read.
C11_EveryRecipientAttempted ==
    /\ sl_pc \in {"checks", "sleep"} => TickSendsInOrder
    /\ TickEnded => Len(tk_sends) = Len(tk_fanouts) * Len(users)
    /\ ad_pc \in {"report", "answer", "done"} =>
          BagCardinality(ad_outcomes) = Len(ad_users)
    /\ (rf_pc = "done" /\ rf_outcome = "completed") =>
          [i \in 1..Len(rf_sends) |-> rf_sends[i].user] = rf_users

\* A tick with two users has ended in which the send to the first recipient
\* of a fan-out failed and the second recipient was sent to.
C11_Witness ==
    /\ TickEnded
    /\ Len(users) = 2
    /\ Len(tk_sends) >= 2
    /\ tk_sends[1].result = "false"
    /\ tk_sends[2].user = users[2]

\* =========================================================================
\* A reminder fan-out and an administrator broadcast on one event loop
\* =========================================================================

\* The two coroutines: a fan-out of check_and_send_reminders (scheduler.py
\* 126-128) and the loop of confirm_send_callback (bot.py 412-429).
Fanouts == {"reminder", "broadcast"}

\* What the except clause taken for outcome o of attempt a of n does.
HandlerAction(a, n, o) ==
    CASE Handler(ExceptionClass(o.kind)) = "TelegramRetryAfter" -> OnRetryAfter(o)
      [] Handler(ExceptionClass(o.kind)) = "TelegramNetworkError" ->
            OnNetworkError(a, n)
      [] Handler(ExceptionClass(o.kind)) = "TelegramAPIError" -> OnApiError
      [] OTHER -> OnOtherError

\* What follows the answer o to attempt a of n in safe_send_message: the call
\* returns True ("true"), returns False ("false": a handler's return, or the
\* return after the loop when `continue` ends the last iteration), or makes
\* another attempt ("retry").
AttemptVerdict(a, n, o) ==
    IF o.kind = "ok" THEN "true"
    ELSE IF HandlerAction(a, n, o).go = "continue" /\ a + 1 < n THEN "retry"
    ELSE "false"

Awaited_FireAndForget == FALSE

\* await safe_send_message(bot, user_id, message): the loop body goes on only
\* when the call has returned.
Awaited == TRUE

\* The transport call of attempt att to the recipient at position pos.
WireEvent(f, pos, att) ==
    [fanout |-> f, pos |-> pos, user |-> fo_list[f][pos], attempt |-> att]

\* reminder: the for loop takes the next user_id and enters
\* safe_send_message, which makes its first bot.send_message call.
ReminderCall ==
    /\ fo_next["reminder"] <= Len(fo_list["reminder"])
    /\ Awaited => fo_calls["reminder"] = {}
    /\ fo_calls' = [fo_calls EXCEPT !["reminder"] =
          @ \cup {[pos |-> fo_next["reminder"], attempt |-> 0, st |-> "sent"]}]
    /\ fo_wire' = Append(fo_wire, WireEvent("reminder", fo_next["reminder"], 0))
    /\ fo_next' = [fo_next EXCEPT !["reminder"] = @ + 1]
    /\ UNCHANGED fo_list
    /\ UNCHANGED notLoop

\* reminder: the transport answers an attempt.  safe_send_message returns,
\* or sleeps before its next attempt.
ReminderAnswer ==
    /\ \E c \in fo_calls["reminder"], o \in TransportOutcomes :
          /\ c.st = "sent"
          /\ fo_calls' = [fo_calls EXCEPT !["reminder"] =
                IF AttemptVerdict(c.attempt, DefaultMaxRetries, o) = "retry"
                THEN (@ \ {c}) \cup {[pos |-> c.pos, attempt |-> c.attempt + 1,
                                       st |-> "sleeping"]}
                ELSE @ \ {c}]
    /\ UNCHANGED <<fo_list, fo_next, fo_wire>>
    /\ UNCHANGED notLoop

\* reminder: the sleep before a retry is over; the next bot.send_message call.
ReminderRetry ==
    /\ \E c \in fo_calls["reminder"] :
          /\ c.st = "sleeping"
          /\ fo_calls' = [fo_calls EXCEPT !["reminder"] =
                (@ \ {c}) \cup {[c EXCEPT !.st = "sent"]}]
          /\ fo_wire' = Append(fo_wire, WireEvent("reminder", c.pos, c.attempt))
    /\ UNCHANGED <<fo_list, fo_next>>
    /\ UNCHANGED notLoop

\* broadcast: the for loop takes the next user_id and calls bot.send_message
\* (or send_photo) inside the try.
BroadcastSend ==
    /\ fo_next["broadcast"] <= Len(fo_list["broadcast"])
    /\ fo_calls["broadcast"] = {}
    /\ fo_calls' = [fo_calls EXCEPT !["broadcast"] =
          {[pos |-> fo_next["broadcast"], attempt |-> 0, st |-> "sent"]}]
    /\ fo_wire' = Append(fo_wire, WireEvent("broadcast", fo_next["broadcast"], 0))
    /\ fo_next' = [fo_next EXCEPT !["broadcast"] = @ + 1]
    /\ UNCHANGED fo_list
    /\ UNCHANGED notLoop

\* broadcast: the transport answers; the iteration ends, counted as a success
\* or, by `except Exception`, as an error.
BroadcastAnswer ==
    /\ \E c \in fo_calls["broadcast"] :
          fo_calls' = [fo_calls EXCEPT !["broadcast"] = @ \ {c}]
    /\ UNCHANGED <<fo_list, fo_next, fo_wire>>
    /\ UNCHANGED notLoop

\* Both coroutines have read their lists of registered users and are about
\* to enter their loops.
InitLoop ==
    /\ fo_list \in [Fanouts -> {Ascending(S) : S \in SUBSET UserIds}]
    /\ fo_next = [f \in Fanouts |-> 1]
    /\ fo_calls = [f \in Fanouts |-> {}]
    /\ fo_wire = << >>
    /\ SendIdle
    /\ SubIdle
    /\ SchedIdle
    /\ AdminIdle
    /\ RaffleIdle
    /\ RegIdle

\* The event loop runs whichever coroutine can go on.
NextLoop ==
    \/ ReminderCall
    \/ ReminderAnswer
    \/ ReminderRetry
    \/ BroadcastSend
    \/ BroadcastAnswer

SpecLoop == InitLoop /\ [][NextLoop]_vars

\* C12: within each fan-out the transport calls are made in the order of its
\* list, every attempt for a recipient before the first attempt for the
\* next, whatever the other fan-out does in between; and the call a fan-out
\* has in flight, if any, is the one for the recipient it took last.
C12_SequentialInOrder ==
    /\ \A a \in 1..Len(fo_wire) : \A b \in 1..Len(fo_wire) :
          (a < b /\ fo_wire[a].fanout = fo_wire[b].fanout) =>
              \/ fo_wire[a].pos < fo_wire[b].pos
              \/ /\ fo_wire[a].pos = fo_wire[b].pos
                 /\ fo_wire[a].attempt < fo_wire[b].attempt
    /\ \A k \in 1..Len(fo_wire) :
          fo_wire[k].user = fo_list[fo_wire[k].fanout][fo_wire[k].pos]
    /\ \A f \in DOMAIN fo_calls :
          /\ Cardinality(fo_calls[f]) <= 1
          /\ \A c \in fo_calls[f] : c.pos = fo_next[f] - 1
          /\ {fo_wire[k].pos : k \in {j \in 1..Len(fo_wire) : fo_wire[j].fanout = f}}
                = 1..(fo_next[f] - 1)

\* The reminder fan-out made a first attempt for its first recipient, the
\* broadcast made a send, the reminder retried the first recipient, and then
\* it went on to its second recipient.
C12_Witness ==
    \E a \in 1..Len(fo_wire) : \E b \in 1..Len(fo_wire) :
    \E c \in 1..Len(fo_wire) : \E d \in 1..Len(fo_wire) :
        /\ a < b /\ b < c /\ c < d
        /\ fo_wire[a].fanout = "reminder"
        /\ fo_wire[a].pos = 1 /\ fo_wire[a].attempt = 0
        /\ fo_wire[b].fanout = "broadcast"
        /\ fo_wire[c].fanout = "reminder"
        /\ fo_wire[c].pos = 1 /\ fo_wire[c].attempt = 1
        /\ fo_wire[d].fanout = "reminder"
        /\ fo_wire[d].pos = 2 /\ fo_wire[d].attempt = 0

=============================================================================
